---- MODULE Spec2Model ----
(***************************************************************************)
(* Multi-stream detection-to-KPI pipeline: the camera workers and their    *)
(* shared detection store (cameras/camera_manager.py), the KPI aggregator  *)
(* loop (analytics/kpi_processor.py) and the supervisor that starts and    *)
(* stops them (dashboard/dashboard_app.py).                                *)
(*                                                                         *)
(* Units.  Pixel centres are kept doubled (x1 + x2 instead of (x1+x2)/2)   *)
(* so that the zone tests stay exact on integers.  Confidences are         *)
(* percentages.  Values the code rounds to two decimals are kept in        *)
(* hundredths.  Time is counted in aggregator sleep intervals.             *)
(***************************************************************************)
EXTENDS Integers, Sequences, FiniteSets, TLC

\* ------------------------------------------------------------------ bounds
\* Longest list of boxes one inference call returns to a worker.
MaxBoxes == 1
\* Number of publishes after which the bounded specifications stop feeding
\* new frames.
MaxPublish == 2
\* The same for the specification of the aggregator loop.
MaxKpiPublish == 1
\* The clock saturates here.
MaxTime == 3
\* Aggregator loop iterations the bounded specifications let begin.
MaxTicks == 4
\* Aggregator loop iterations the specification of the whole system lets
\* begin while running is true.
MaxLifeTicks == 2
\* Longest list of queue zones a configuration declares.
MaxZones == 2
\* The largest entry count an hour of a histogram is given.
MaxEntries == 3
\* Rows a table of the database holds before its writers stop calling.
MaxRows == 2
\* stop_system calls that are counted and allowed.
MaxStops == 2
\* start_processing calls that are counted and allowed.
MaxStarts == 2
\* Consecutive failed reads that are counted.
MaxFails == 3
\* deque(maxlen=100) of queue_history, scaled down.
QueueHistoryMaxLen == 3
\* The 100 most recent alerts that are kept, scaled down.
AlertsKeep == 3
\* deque(maxlen=1440) of the historical series, scaled down.
HistoricalMaxLen == 4
\* deque(maxlen=24) of entries_per_hour, scaled down.
EntriesPerHourMaxLen == 2

\* ----------------------------------------------------------- configuration
\* config/config.json as the constructors receive it.
CameraNames == {"parking_camera", "gate_camera", "queue_camera", "kitchen_camera"}

\* The order in which camera_config lists the cameras.
CameraOrder == <<"parking_camera", "gate_camera", "queue_camera", "kitchen_camera">>

Roles == {"parking", "gate", "queue", "kitchen"}

camera_config ==
    [c \in CameraNames |->
        CASE c = "parking_camera" -> [type |-> "vehicle_detection"]
          [] c = "gate_camera"    -> [type |-> "person_tracking"]
          [] c = "queue_camera"   ->
                [type |-> "queue_analysis",
                 queue_zones |->
                    << [name |-> "A", x |-> 0, y |-> 0, width |-> 10, height |-> 10],
                       [name |-> "B", x |-> 0, y |-> 0, width |-> 20, height |-> 20] >>]
          [] c = "kitchen_camera" ->
                [type |-> "staff_monitoring",
                 monitoring_zones |->
                    [work_area    |-> [x |-> 0, y |-> 0, width |-> 10, height |-> 10],
                     wash_station |-> [x |-> 10, y |-> 10, width |-> 10, height |-> 10]]]]

model_config ==
    [vehicle_detection |-> [classes |-> {2, 3, 5, 7}, confidence_threshold |-> 50],
     person_detection  |-> [confidence_threshold |-> 50]]

\* The detection_data key each camera type writes.
RoleOf(c) ==
    CASE camera_config[c].type = "vehicle_detection" -> "parking"
      [] camera_config[c].type = "person_tracking"   -> "gate"
      [] camera_config[c].type = "queue_analysis"    -> "queue"
      [] camera_config[c].type = "staff_monitoring"  -> "kitchen"

\* self.camera_config['queue_camera'].get('queue_zones', []) as the
\* constructor received it: the zones in declaration order.
VARIABLE queue_zones

\* ------------------------------------------------------- inference results
\* One box of an inference result: class, confidence, corner coordinates.
Box(cls, conf, cx, cy) ==
    [cls |-> cls, conf |-> conf, xyxy |-> <<cx - 1, cy - 1, cx + 1, cy + 1>>]

Centres == {<<5, 5>>, <<10, 10>>, <<15, 15>>, <<25, 25>>}

Boxes ==
    {Box(cls, conf, p[1], p[2]) : cls \in {0, 2}, conf \in {49, 50}, p \in Centres}

\* The boxes the concurrent specifications feed: a person in zone A, a
\* low-confidence person and a car.
FeedBoxes == {Box(0, 50, 5, 5), Box(0, 49, 5, 5), Box(2, 50, 5, 5)}

SeqsUpTo(S, n) == UNION {[1..k -> S] : k \in 0..n}

InferenceResults == SeqsUpTo(FeedBoxes, MaxBoxes)

\* ------------------------------------------------------------ pure helpers
Min(a, b) == IF a < b THEN a ELSE b

\* zone['x'] <= center_x <= zone['x'] + zone['width'] and the same for y,
\* on doubled centres.
InZone(zone, c2) ==
    /\ 2 * zone.x <= c2[1] /\ c2[1] <= 2 * (zone.x + zone.width)
    /\ 2 * zone.y <= c2[2] /\ c2[2] <= 2 * (zone.y + zone.height)

\* A zone loop without the break, in which the last zone that holds the
\* centre would name the detection.
RECURSIVE LastZoneFrom(_, _, _)
LastZoneFrom(zones, c2, i) ==
    IF i > Len(zones) THEN 0
    ELSE LET later == LastZoneFrom(zones, c2, i + 1)
         IN IF later # 0 THEN later
            ELSE IF InZone(zones[i], c2) THEN i ELSE 0

\* The zone loop of process_queue_camera: the index of the first zone, in
\* declaration order, that holds the centre; 0 when the loop ends without break.
RECURSIVE FirstZoneFrom(_, _, _)
FirstZoneFrom(zones, c2, i) ==
    IF i > Len(zones) THEN 0
    ELSE IF InZone(zones[i], c2) THEN i
    ELSE FirstZoneFrom(zones, c2, i + 1)

FirstZone(zones, c2) == FirstZoneFrom(zones, c2, 1)

Center2(box) == <<box.xyxy[1] + box.xyxy[3], box.xyxy[2] + box.xyxy[4]>>

IsPerson(box) ==
    /\ box.cls = 0
    /\ box.conf >= model_config.person_detection.confidence_threshold

IsVehicle(box) ==
    /\ box.cls \in model_config.vehicle_detection.classes
    /\ box.conf >= model_config.vehicle_detection.confidence_threshold

\* The loop body of process_parking_camera.
ParkingBody(acc, box, t) ==
    IF IsVehicle(box)
    THEN [acc EXCEPT
            !.vehicle_count = @ + 1,
            !.detections = Append(@, [class_id |-> box.cls, confidence |-> box.conf,
                                      bbox |-> box.xyxy, timestamp |-> t])]
    ELSE acc

\* A gate loop that would count a person before testing the confidence.
GateBodyCountsUnfiltered(acc, box, t) ==
    IF box.cls = 0
    THEN IF IsPerson(box)
         THEN [acc EXCEPT
                 !.person_count = @ + 1,
                 !.detections = Append(@, [class_id |-> box.cls, confidence |-> box.conf,
                                           bbox |-> box.xyxy, center |-> Center2(box),
                                           timestamp |-> t])]
         ELSE [acc EXCEPT !.person_count = @ + 1]
    ELSE acc

\* The loop body of process_gate_camera.
GateBody(acc, box, t) ==
    IF IsPerson(box)
    THEN [acc EXCEPT
            !.person_count = @ + 1,
            !.detections = Append(@, [class_id |-> box.cls, confidence |-> box.conf,
                                      bbox |-> box.xyxy, center |-> Center2(box),
                                      timestamp |-> t])]
    ELSE acc

\* A zone loop without the break, in which every zone that holds the centre
\* would count the person again.
QueueBodyPerZone(acc, box, t) ==
    LET z == FirstZone(queue_zones, Center2(box))
        holding == {k \in DOMAIN queue_zones : InZone(queue_zones[k], Center2(box))}
    IN IF IsPerson(box) /\ z # 0
       THEN [acc EXCEPT
               !.queue_length = @ + Cardinality(holding),
               !.detections = Append(@, [class_id |-> box.cls, confidence |-> box.conf,
                                         bbox |-> box.xyxy, center |-> Center2(box),
                                         zone |-> queue_zones[z].name,
                                         timestamp |-> t])]
       ELSE acc

\* The loop body of process_queue_camera: the first zone that holds the
\* centre counts the person once and names the detection's zone.
QueueBody(acc, box, t) ==
    LET z == FirstZone(queue_zones, Center2(box))
    IN IF IsPerson(box) /\ z # 0
       THEN [acc EXCEPT
               !.queue_length = @ + 1,
               !.detections = Append(@, [class_id |-> box.cls, confidence |-> box.conf,
                                         bbox |-> box.xyxy, center |-> Center2(box),
                                         zone |-> queue_zones[z].name,
                                         timestamp |-> t])]
       ELSE acc

\* A kitchen loop in which each person overwrites the hand-washing flag.
KitchenBodyLastPersonDecides(acc, box, t) ==
    LET monitoring_zones == camera_config["kitchen_camera"].monitoring_zones
    IN IF IsPerson(box)
       THEN [acc EXCEPT
               !.staff_count =
                    IF InZone(monitoring_zones.work_area, Center2(box)) THEN @ + 1 ELSE @,
               !.hand_washing_detected =
                    InZone(monitoring_zones.wash_station, Center2(box)),
               !.detections = Append(@, [class_id |-> box.cls, confidence |-> box.conf,
                                         bbox |-> box.xyxy, center |-> Center2(box),
                                         timestamp |-> t])]
       ELSE acc

\* The loop body of process_kitchen_camera.
KitchenBody(acc, box, t) ==
    LET monitoring_zones == camera_config["kitchen_camera"].monitoring_zones
    IN IF IsPerson(box)
       THEN [acc EXCEPT
               !.staff_count =
                    IF InZone(monitoring_zones.work_area, Center2(box)) THEN @ + 1 ELSE @,
               !.hand_washing_detected =
                    IF InZone(monitoring_zones.wash_station, Center2(box)) THEN TRUE ELSE @,
               !.detections = Append(@, [class_id |-> box.cls, confidence |-> box.conf,
                                         bbox |-> box.xyxy, center |-> Center2(box),
                                         timestamp |-> t])]
       ELSE acc

\* The loop body of the process_*_camera function of a camera type.
LoopBody(camera_type, acc, box, t) ==
    CASE camera_type = "vehicle_detection" -> ParkingBody(acc, box, t)
      [] camera_type = "person_tracking"   -> GateBody(acc, box, t)
      [] camera_type = "queue_analysis"    -> QueueBody(acc, box, t)
      [] camera_type = "staff_monitoring"  -> KitchenBody(acc, box, t)

\* for box in boxes: the loop body applied to each box in order.
RECURSIVE ForEachBox(_, _, _, _)
ForEachBox(camera_type, acc, boxes, t) ==
    IF boxes = <<>> THEN acc
    ELSE ForEachBox(camera_type, LoopBody(camera_type, acc, Head(boxes), t),
                    Tail(boxes), t)

\* The snapshot each process_*_camera call stores, as one value.
ParkingSnapshot(boxes, t) ==
    LET r == ForEachBox("vehicle_detection", [vehicle_count |-> 0, detections |-> <<>>], boxes, t)
    IN [vehicle_count |-> r.vehicle_count, detections |-> r.detections, timestamp |-> t]

GateSnapshot(boxes, t) ==
    LET r == ForEachBox("person_tracking", [person_count |-> 0, detections |-> <<>>], boxes, t)
    IN [person_count |-> r.person_count, detections |-> r.detections, timestamp |-> t]

QueueSnapshot(boxes, t) ==
    LET r == ForEachBox("queue_analysis", [queue_length |-> 0, detections |-> <<>>], boxes, t)
    IN [queue_length |-> r.queue_length, detections |-> r.detections, timestamp |-> t]

KitchenSnapshot(boxes, t) ==
    LET r == ForEachBox("staff_monitoring",
                        [staff_count |-> 0, hand_washing_detected |-> FALSE,
                         detections |-> <<>>], boxes, t)
    IN [staff_count |-> r.staff_count,
        hand_washing_detected |-> r.hand_washing_detected,
        detections |-> r.detections, timestamp |-> t]

\* The dispatch on camera_type in process_camera_feed.
SnapshotOf(c, boxes, t) ==
    CASE camera_config[c].type = "vehicle_detection" -> ParkingSnapshot(boxes, t)
      [] camera_config[c].type = "person_tracking"   -> GateSnapshot(boxes, t)
      [] camera_config[c].type = "queue_analysis"    -> QueueSnapshot(boxes, t)
      [] camera_config[c].type = "staff_monitoring"  -> KitchenSnapshot(boxes, t)

\* detection_data as __init__ leaves it: every key bound to an empty list.
EmptyList == <<>>

\* A store that would keep the snapshot of a role once it has one.
PublishKeepFirst(dd, role, snapshot) ==
    IF dd[role] = EmptyList THEN [dd EXCEPT ![role] = snapshot] ELSE dd

\* A store that would update the entry of a role in place, field by field,
\* and be read half way: the new count and timestamp beside the old detections.
PublishMerge(dd, role, snapshot) ==
    IF dd[role] = EmptyList
    THEN [dd EXCEPT ![role] = snapshot]
    ELSE [dd EXCEPT ![role] = [snapshot EXCEPT !.detections = dd[role].detections]]

\* A store that would be rebuilt around the snapshot just published.
PublishAlone(dd, role, snapshot) ==
    [r \in DOMAIN dd |-> IF r = role THEN snapshot ELSE EmptyList]

\* self.detection_data[role] = {...}: the key is rebound to the new value.
Publish(dd, role, snapshot) == [dd EXCEPT ![role] = snapshot]

\* self.detection_data.copy()
GetDetectionData(dd) == dd

\* A test that would take a snapshot without detections for no snapshot.
TruthyWithDetections(v) == v # EmptyList /\ v.detections # <<>>

\* Python truthiness of a store entry: the empty list is falsy, a snapshot
\* dictionary (which always has keys) is truthy.
Truthy(v) == v # EmptyList


\* ---------------------------------------------------------- KPI configuration
\* The analytics section of the configuration: one time unit is one
\* update_interval.
analytics_config ==
    [update_interval |-> 1,
     save_interval |-> 2,
     alert_thresholds |-> [max_queue_length |-> 0, min_staff_count |-> 1]]

\* datetime.now().hour for a clock that starts in the last interval before
\* midnight (720 intervals of 5 s make an hour).
HourOf(t) == ((23 * 720 + 719 + t) \div 720) % 24

\* ------------------------------------------------------------- KPI helpers
\* A ring that would refuse the new entry once it is full.
DequeAppendKeepOldest(q, e, maxlen) ==
    IF Len(q) < maxlen THEN Append(q, e) ELSE q

\* A list that would grow without limit.
DequeAppendUnbounded(q, e, maxlen) == Append(q, e)

\* deque(maxlen=n).append(e): at capacity the oldest entry is dropped.
DequeAppend(q, e, maxlen) ==
    IF Len(q) < maxlen THEN Append(q, e) ELSE Append(Tail(q), e)

RECURSIVE SumLengths(_)
SumLengths(q) == IF q = <<>> THEN 0 ELSE Head(q).length + SumLengths(Tail(q))

\* round(num / den, 2) when num is in hundredths of the unit of the result
\* (and den > 0): the nearest integer; a quotient exactly half way between
\* two integers goes to either, as the binary value of the float decides.
RoundDiv(num, den) ==
    LET q == num \div den
        r == num % den
    IN IF 2 * r < den THEN {q}
       ELSE IF 2 * r > den THEN {q + 1}
       ELSE {q, q + 1}

\* self.kpis as __init__ builds it.  The two hourly histograms are
\* defaultdict(int): here the sequence of their keys in insertion order with
\* the value of each.  Averages and the efficiency are in hundredths.
InitialKpis ==
    [customer_flow |->
        [total_entries |-> 0, total_exits |-> 0, current_occupancy |-> 0,
         hourly_entries |-> <<>>, peak_hour |-> "None", average_dwell_time |-> 0],
     vehicle_metrics |->
        [total_vehicles |-> 0, current_vehicles |-> 0, hourly_arrivals |-> <<>>,
         peak_parking_hour |-> "None", parking_utilization |-> 0],
     queue_analytics |->
        [current_queue_length |-> 0, max_queue_length |-> 0,
         average_queue_length |-> 0, average_wait_time |-> 0,
         total_customers_served |-> 0, queue_history |-> <<>>],
     staff_metrics |->
        [current_staff_count |-> 0, total_staff_hours |-> 0,
         hygiene_compliance_rate |-> 0, hand_washing_events |-> 0,
         attendance_log |-> <<>>],
     operational_kpis |->
        [service_efficiency |-> 0, customer_satisfaction_score |-> 0,
         peak_hours |-> <<>>, busy_periods |-> <<>>, alerts |-> <<>>]]

InitialHistoricalData ==
    [entries_per_hour |-> <<>>, queue_lengths |-> <<>>,
     staff_counts |-> <<>>, vehicle_counts |-> <<>>]

\* max(d, key=d.get) over a histogram kept in insertion order: the first key,
\* in iteration order, that holds the maximum value.
RECURSIVE MaxKeyFrom(_, _, _)
MaxKeyFrom(hist, i, best) ==
    IF i > Len(hist) THEN hist[best].hour
    ELSE MaxKeyFrom(hist, i + 1, IF hist[i].entries > hist[best].entries THEN i ELSE best)

MaxKey(hist) == MaxKeyFrom(hist, 2, 1)

\* d[hour] on a defaultdict(int): a missing key is inserted with value 0.
Touch(hist, hour) ==
    IF \E i \in DOMAIN hist : hist[i].hour = hour THEN hist
    ELSE Append(hist, [hour |-> hour, entries |-> 0])

Lookup(hist, hour) ==
    LET i == CHOOSE i \in DOMAIN hist : hist[i].hour = hour IN hist[i].entries

\* --- update_customer_flow_kpis, for a truthy gate snapshot
UpdateCustomerFlow(cf, t) ==
    LET peaked == IF cf.hourly_entries # <<>>
                  THEN [cf EXCEPT !.peak_hour = MaxKey(cf.hourly_entries)]
                  ELSE cf
    IN [peaked EXCEPT !.hourly_entries = Touch(@, HourOf(t))]

EntriesPerHourAppend(hd, cf, t) ==
    [hd EXCEPT !.entries_per_hour =
        DequeAppend(@, [hour |-> HourOf(t),
                        entries |-> Lookup(cf.hourly_entries, HourOf(t)),
                        timestamp |-> t], EntriesPerHourMaxLen)]

\* --- update_vehicle_kpis, for a truthy parking snapshot
UpdateVehicleMetrics(vm, parking_data) ==
    LET counted == [vm EXCEPT !.current_vehicles = parking_data.vehicle_count]
    IN IF counted.hourly_arrivals # <<>>
       THEN [counted EXCEPT !.peak_parking_hour = MaxKey(counted.hourly_arrivals)]
       ELSE counted

VehicleCountsAppend(hd, vm, t) ==
    [hd EXCEPT !.vehicle_counts =
        DequeAppend(@, [count |-> vm.current_vehicles, timestamp |-> t], HistoricalMaxLen)]

\* --- update_queue_kpis, statement by statement
\* self.kpis['queue_analytics']['current_queue_length'] = current_queue_length
QueueSetCurrent(qa, current_queue_length) ==
    [qa EXCEPT !.current_queue_length = current_queue_length]

\* self.kpis['queue_analytics']['queue_history'].append({...})
QueueHistoryAppend(qa, current_queue_length, t) ==
    [qa EXCEPT !.queue_history =
        DequeAppend(@, [length |-> current_queue_length, timestamp |-> t],
                    QueueHistoryMaxLen)]

\* An update that would let the maximum follow the current length.
QueueUpdateMaxFollows(qa, current_queue_length) ==
    [qa EXCEPT !.max_queue_length = current_queue_length]

\* if current_queue_length > max_queue_length: max_queue_length = current_queue_length
QueueUpdateMax(qa, current_queue_length) ==
    IF current_queue_length > qa.max_queue_length
    THEN [qa EXCEPT !.max_queue_length = current_queue_length]
    ELSE qa

\* round(np.mean([entry['length'] for entry in queue_history]), 2): the values
\* the statement can store, in hundredths.
QueueAverages(qa) ==
    IF qa.queue_history # <<>>
    THEN RoundDiv(100 * SumLengths(qa.queue_history), Len(qa.queue_history))
    ELSE {qa.average_queue_length}

QueueLengthsAppend(hd, current_queue_length, t) ==
    [hd EXCEPT !.queue_lengths =
        DequeAppend(@, [length |-> current_queue_length, timestamp |-> t],
                    HistoricalMaxLen)]

\* --- update_staff_kpis, for a truthy kitchen snapshot
UpdateStaffMetrics(sm, kitchen_data) ==
    [sm EXCEPT !.current_staff_count = kitchen_data.staff_count]

StaffCountsAppend(hd, current_staff, t) ==
    [hd EXCEPT !.staff_counts =
        DequeAppend(@, [count |-> current_staff, timestamp |-> t], HistoricalMaxLen)]

\* --- update_operational_kpis
\* An update that would reset the efficiency when it cannot be computed.
ServiceEfficienciesZeroed(k) ==
    LET queue_length == k.queue_analytics.average_queue_length
        staff_count == k.staff_metrics.current_staff_count
    IN IF staff_count > 0 /\ queue_length > 0
       THEN RoundDiv(queue_length, staff_count)
       ELSE {0}

\* The values service_efficiency can hold after the first statement group.
ServiceEfficiencies(k) ==
    LET queue_length == k.queue_analytics.average_queue_length
        staff_count == k.staff_metrics.current_staff_count
    IN IF staff_count > 0 /\ queue_length > 0
       THEN RoundDiv(queue_length, staff_count)
       ELSE {k.operational_kpis.service_efficiency}

RECURSIVE SumEntries(_)
SumEntries(hist) == IF hist = <<>> THEN 0 ELSE Head(hist).entries + SumEntries(Tail(hist))

\* [hour for hour, entries in hourly_entries.items() if entries > avg * 1.5],
\* with avg = sum / n compared without division.
PeakHours(hist) ==
    LET RECURSIVE Scan(_)
        Scan(i) ==
            IF i > Len(hist) THEN <<>>
            ELSE (IF 2 * Len(hist) * hist[i].entries > 3 * SumEntries(hist)
                  THEN <<hist[i].hour>> ELSE <<>>) \o Scan(i + 1)
    IN Scan(1)

\* An update that would add the hours that qualify to those already listed.
UpdatePeakHoursAccumulated(ok, hourly_entries) ==
    IF hourly_entries # <<>>
    THEN [ok EXCEPT !.peak_hours = @ \o PeakHours(hourly_entries)]
    ELSE ok

UpdatePeakHours(ok, hourly_entries) ==
    IF hourly_entries # <<>>
    THEN [ok EXCEPT !.peak_hours = PeakHours(hourly_entries)]
    ELSE ok

\* --- check_and_generate_alerts
\* Rules that would not repeat a queue alert while the stored list still ends
\* with alerts of the previous cycle that include one.
NewAlertsDeduplicated(k, t) ==
    LET max_queue == analytics_config.alert_thresholds.max_queue_length
        current_queue == k.queue_analytics.current_queue_length
        min_staff == analytics_config.alert_thresholds.min_staff_count
        current_staff == k.staff_metrics.current_staff_count
        stored == k.operational_kpis.alerts
    IN (IF current_queue > max_queue
           /\ ~\E i \in DOMAIN stored : stored[i].type = "queue_alert"
        THEN << [type |-> "queue_alert", message |-> <<current_queue, max_queue>>,
                 severity |-> "high", timestamp |-> t] >>
        ELSE <<>>)
       \o
       (IF current_staff < min_staff
        THEN << [type |-> "staff_alert", message |-> <<current_staff, min_staff>>,
                 severity |-> "medium", timestamp |-> t] >>
        ELSE <<>>)

\* Rules that would test the staff count only when the queue rule is quiet.
NewAlertsExclusive(k, t) ==
    LET max_queue == analytics_config.alert_thresholds.max_queue_length
        current_queue == k.queue_analytics.current_queue_length
        min_staff == analytics_config.alert_thresholds.min_staff_count
        current_staff == k.staff_metrics.current_staff_count
    IN IF current_queue > max_queue
       THEN << [type |-> "queue_alert", message |-> <<current_queue, max_queue>>,
                severity |-> "high", timestamp |-> t] >>
       ELSE IF current_staff < min_staff
       THEN << [type |-> "staff_alert", message |-> <<current_staff, min_staff>>,
                severity |-> "medium", timestamp |-> t] >>
       ELSE <<>>

\* The local list alerts: the queue rule, then the staff rule.
NewAlerts(k, t) ==
    LET max_queue == analytics_config.alert_thresholds.max_queue_length
        current_queue == k.queue_analytics.current_queue_length
        min_staff == analytics_config.alert_thresholds.min_staff_count
        current_staff == k.staff_metrics.current_staff_count
    IN (IF current_queue > max_queue
        THEN << [type |-> "queue_alert", message |-> <<current_queue, max_queue>>,
                 severity |-> "high", timestamp |-> t] >>
        ELSE <<>>)
       \o
       (IF current_staff < min_staff
        THEN << [type |-> "staff_alert", message |-> <<current_staff, min_staff>>,
                 severity |-> "medium", timestamp |-> t] >>
        ELSE <<>>)

\* self.kpis['operational_kpis']['alerts'].extend(alerts)
ExtendAlerts(ok, alerts) == [ok EXCEPT !.alerts = @ \o alerts]

\* if len(alerts) > 100: alerts = alerts[-100:]
TrimAlerts(ok) ==
    IF Len(ok.alerts) > AlertsKeep
    THEN [ok EXCEPT !.alerts = SubSeq(@, Len(@) - AlertsKeep + 1, Len(@))]
    ELSE ok

\* --- save_kpis_to_database: the record handed to save_kpi_record
KpiRecord(k, t) ==
    [timestamp |-> t,
     customer_entries |-> k.customer_flow.total_entries,
     customer_exits |-> k.customer_flow.total_exits,
     current_occupancy |-> k.customer_flow.current_occupancy,
     vehicle_count |-> k.vehicle_metrics.current_vehicles,
     queue_length |-> k.queue_analytics.current_queue_length,
     staff_count |-> k.staff_metrics.current_staff_count,
     service_efficiency |-> k.operational_kpis.service_efficiency]

\* -------------------------------------------------------------------- state
VARIABLES
    \* CameraManager
    cameras,            \* camera name -> "absent" | "open" | "released"
    cm_running,         \* CameraManager.running
    camera_threads,     \* camera names in the order their thread was recorded
    detection_data,     \* role -> EmptyList or the latest snapshot
    w_pc,               \* position of each process_camera_feed thread
    w_fails,            \* failed reads in a row of each worker, saturating (history)
    w_recovered,        \* failed reads that preceded the read of the frame a
                        \* worker is processing or has just processed (history)
    npub,               \* number of publishes so far, saturating (history)
    queue_boxes,        \* the boxes of the frame the queue worker processed last,
                        \* where the zone test is followed (history)
    kitchen_boxes,      \* the boxes of the frame the kitchen worker processed last
                        \* (history)
    reader_copy,        \* what the last get_detection_data call returned
    snapshot_objects,   \* the snapshot dictionaries the workers have created, in
                        \* the order of their creation, where identities are followed
    store_refs,         \* role -> 0 (the list of __init__) or the index of the
                        \* dictionary self.detection_data binds the role to
    held,               \* the mapping object the last get_detection_data call
                        \* returned, where identities are followed
    kpi_held,           \* the mapping object the last get_current_kpis call
                        \* returned, where identities are followed
    now,                \* the clock
    \* KPIProcessor
    kp_running,         \* KPIProcessor.running
    kpis,               \* self.kpis
    historical_data,    \* self.historical_data
    agg_pc,             \* position of the start_processing thread
    agg_detection_data, \* process_kpis: the local detection_data
    agg_current_time,   \* process_kpis: the local current_time
    agg_time,           \* start_processing: the local current_time
    last_save_time,     \* start_processing: the local last_save_time
    agg_ticks,          \* loop iterations begun so far, saturating (history)
    agg_caught,         \* whether the handler of the loop has run (history)
    agg_starts,         \* start_processing calls that have set running, saturating
                        \* (history)
    \* DatabaseManager
    kpi_records,        \* rows of the kpi_records table, oldest first
    \* DatabaseManager
    customer_events,    \* rows of the customer_events table, oldest first
    alerts_table,       \* rows of the alerts table, oldest first
    db_lock,            \* "free" or the thread that holds self.db_lock
    db_pc,              \* thread -> its position in a DatabaseManager method
    db_call,            \* thread -> the method of its current or last call
    db_result,          \* thread -> "none" | "ok" | "raised": how the database
                        \* operation of that call ended (history)
    db_added,           \* thread -> rows that call has appended (history)
    \* RestaurantInvigilationSystem and the thread that runs start_monitoring
    sys_running,        \* RestaurantInvigilationSystem.running
    threads,            \* self.threads
    sup_pc,             \* position of the thread that calls start_system / stop_system
    sup_i,              \* its loop index
    sup_iter_size,      \* size of camera_threads when stop_monitoring began to iterate it
    sup_stops,          \* stop_system calls so far, saturating (history)
    mon_pc,             \* position of the start_monitoring thread
    mon_i               \* its loop index

zoneVars == <<queue_zones, queue_boxes, kitchen_boxes>>
dbVars == <<customer_events, alerts_table, db_lock, db_pc, db_call, db_result, db_added>>
objectVars == <<snapshot_objects, store_refs, held, kpi_held>>
storeVars == <<detection_data, npub>>
workerVars == <<w_pc, w_fails, w_recovered>>
camVars == <<cameras, cm_running, camera_threads>>
cmVars == <<camVars, storeVars, workerVars, reader_copy>>
kpiVars == <<kpis, historical_data>>
aggVars == <<agg_pc, agg_detection_data, agg_current_time, agg_time, last_save_time,
             agg_ticks, agg_caught, agg_starts>>
aggHist == <<agg_ticks, agg_caught, agg_starts>>
kpVars == <<kp_running, kpiVars, aggVars, kpi_records>>
supVars == <<sys_running, threads, sup_pc, sup_i, sup_iter_size, sup_stops, mon_pc, mon_i>>

vars == <<queue_zones, queue_boxes, kitchen_boxes, customer_events, alerts_table, db_lock, db_pc, db_call, db_result,
          db_added, snapshot_objects, store_refs, held, kpi_held,
          cameras, cm_running, camera_threads, detection_data, w_pc, w_fails,
          w_recovered, npub, reader_copy, now, kp_running, kpis, historical_data,
          agg_pc, agg_detection_data, agg_current_time, agg_time, last_save_time,
          agg_ticks, agg_caught, agg_starts, kpi_records, sys_running, threads, sup_pc, sup_i, sup_iter_size,
          sup_stops, mon_pc, mon_i>>

\* ------------------------------------------------------- CameraManager.__init__
\* No snapshot dictionary exists yet, every role is bound to its empty list,
\* and nobody has called get_detection_data.
NoObjects ==
    /\ snapshot_objects = <<>>
    /\ store_refs = [r \in Roles |-> 0]
    /\ held = [map |-> "none", refs |-> [r \in Roles |-> 0]]
    /\ kpi_held = [taken |-> FALSE, shared |-> {}, at_call |-> InitialKpis]

\* self.camera_config = camera_config: the queue zones the manager works with.
ConfiguredWith(zones) ==
    /\ queue_zones = zones
    /\ queue_boxes = <<>>
    /\ kitchen_boxes = <<>>

\* initialize_cameras, for the cameras whose primary address and whose backup
\* address open a capture: the backup is tried when the primary did not open,
\* and only a capture that opened is stored in self.cameras.
InitializeCameras(primary, backup) ==
    {c \in CameraNames : IF c \in primary THEN TRUE ELSE c \in backup}

\* initialize_cameras: a camera that opens on neither address gets no entry.
InitCameraManager(opened) ==
    /\ cameras = [c \in CameraNames |-> IF c \in opened THEN "open" ELSE "absent"]
    /\ NoObjects
    /\ cm_running = FALSE
    /\ camera_threads = <<>>
    /\ detection_data = [r \in Roles |-> EmptyList]
    /\ w_pc = [c \in CameraNames |-> "idle"]
    /\ w_fails = [c \in CameraNames |-> 0]
    /\ w_recovered = [c \in CameraNames |-> 0]
    /\ npub = 0
    /\ reader_copy = [r \in Roles |-> EmptyList]
    /\ now = 0

\* ------------------------------------------- RestaurantInvigilationSystem.__init__
InitSupervisor ==
    /\ sys_running = FALSE
    /\ threads = <<>>
    /\ sup_pc = "init"
    /\ sup_i = 0
    /\ sup_iter_size = 0
    /\ sup_stops = 0
    /\ mon_pc = "idle"
    /\ mon_i = 0

\* ----------------------------------------------------------------- start_system
\* self.running = True; initialize_database(); the thread that runs
\* start_monitoring is started and appended to self.threads.
StartSystemCamera ==
    /\ sup_pc = "init"
    /\ sys_running' = TRUE
    /\ mon_pc' = "start"
    /\ threads' = Append(threads, "camera_thread")
    /\ sup_pc' = "spawn_kpi"
    /\ UNCHANGED <<zoneVars, dbVars, objectVars, cmVars, now, kpVars, sup_i, sup_iter_size, mon_i,
                   sup_stops>>

\* The thread that runs start_processing is started and appended.
StartSystemKpi ==
    /\ sup_pc = "spawn_kpi"
    /\ agg_pc' = "start"
    /\ threads' = Append(threads, "kpi_thread")
    /\ sup_pc' = "started"
    /\ UNCHANGED <<zoneVars, dbVars, objectVars, cmVars, now, kp_running, kpiVars, agg_detection_data, agg_current_time,
                   agg_time, last_save_time, aggHist, kpi_records, sys_running, sup_i,
                   sup_iter_size, mon_pc, mon_i,
                   sup_stops>>

\* ------------------------------------------------------------------ stop_system
\* self.kpi_processor.stop_processing(): self.running = False; then
\* close_connections(), which does nothing.
StopProcessing ==
    /\ sup_pc = "stop_processing"
    /\ kp_running' = FALSE
    /\ sup_i' = 1
    /\ sup_pc' = "join_threads"
    /\ UNCHANGED <<zoneVars, dbVars, objectVars, cmVars, now, kpiVars, aggVars, kpi_records, sys_running, threads,
                   sup_iter_size, mon_pc, mon_i,
                   sup_stops>>

\* for thread in self.threads: if thread.is_alive(): thread.join(timeout=5)
StopSystemJoin ==
    /\ sup_pc = "join_threads"
    /\ IF sup_i > Len(threads)
       THEN sup_pc' = "stopped" /\ UNCHANGED sup_i
       ELSE sup_pc' = "join_threads" /\ sup_i' = sup_i + 1
    /\ UNCHANGED <<zoneVars, dbVars, objectVars, cmVars, now, kpVars, sys_running, threads, sup_iter_size, mon_pc, mon_i,
                   sup_stops>>

\* ------------------------------------------------------- process_camera_feed
\* while self.running:
WorkerWhile(c) ==
    /\ w_pc[c] = "while"
    /\ w_pc' = [w_pc EXCEPT ![c] = IF cm_running THEN "read" ELSE "done"]
    /\ w_recovered' = [w_recovered EXCEPT ![c] = 0]
    /\ UNCHANGED <<zoneVars, dbVars, objectVars, camVars, storeVars, w_fails, reader_copy, now, kpVars, supVars>>

\* ret, frame = camera.read() returns a frame.  A released capture has none.
WorkerReadOk(c) ==
    /\ w_pc[c] = "read"
    /\ cameras[c] = "open"
    /\ w_pc' = [w_pc EXCEPT ![c] = "process"]
    /\ w_recovered' = [w_recovered EXCEPT ![c] = w_fails[c]]
    /\ w_fails' = [w_fails EXCEPT ![c] = 0]
    /\ UNCHANGED <<zoneVars, dbVars, objectVars, camVars, storeVars, reader_copy, now, kpVars, supVars>>

\* A worker that would leave its loop on the first failed read.
WorkerReadFailStops(c) ==
    /\ w_pc[c] = "read"
    /\ w_pc' = [w_pc EXCEPT ![c] = "done"]
    /\ w_fails' = [w_fails EXCEPT ![c] = Min(@ + 1, MaxFails)]
    /\ UNCHANGED <<zoneVars, dbVars, objectVars, camVars, storeVars, w_recovered, reader_copy, now, kpVars, supVars>>

\* ret is False (or read raises): warning, sleep(1), next iteration.
WorkerReadFail(c) ==
    /\ w_pc[c] = "read"
    /\ w_pc' = [w_pc EXCEPT ![c] = "while"]
    /\ w_fails' = [w_fails EXCEPT ![c] = Min(@ + 1, MaxFails)]
    /\ UNCHANGED <<zoneVars, dbVars, objectVars, camVars, storeVars, w_recovered, reader_copy, now, kpVars, supVars>>

\* camera.read() or the model call never returns.
WorkerBlocks(c) ==
    /\ w_pc[c] \in {"read", "process"}
    /\ w_pc' = [w_pc EXCEPT ![c] = "blocked"]
    /\ UNCHANGED <<zoneVars, dbVars, objectVars, camVars, storeVars, w_fails, w_recovered, reader_copy, now, kpVars, supVars>>

\* process_*_camera(frame): inference, the loops over the boxes, and the
\* store of the finished snapshot; then sleep(0.1) and the next iteration.
WorkerProcess(c, results) ==
    /\ w_pc[c] = "process"
    /\ \E boxes \in results :
          detection_data' = Publish(detection_data, RoleOf(c), SnapshotOf(c, boxes, now))
    /\ npub' = Min(npub + 1, MaxPublish)
    /\ w_pc' = [w_pc EXCEPT ![c] = "while"]
    /\ UNCHANGED <<zoneVars, dbVars, objectVars, camVars, w_fails, w_recovered, reader_copy, now, kpVars, supVars>>

\* The model call raises inside process_*_camera: the error is logged there,
\* nothing is stored, and the loop goes on.
WorkerProcessRaises(c) ==
    /\ w_pc[c] = "process"
    /\ w_pc' = [w_pc EXCEPT ![c] = "while"]
    /\ UNCHANGED <<zoneVars, dbVars, objectVars, camVars, storeVars, w_fails, w_recovered, reader_copy, now, kpVars, supVars>>

\* A caller of get_detection_data.
ReadStore ==
    /\ reader_copy' = GetDetectionData(detection_data)
    /\ reader_copy' # reader_copy
    /\ UNCHANGED <<zoneVars, dbVars, objectVars, camVars, storeVars, workerVars, now, kpVars, supVars>>

\* --- the same two operations with the identity of every dictionary followed
\* A get_detection_data that would hand out self.detection_data itself.
SameMapping(refs) == [map |-> "store", refs |-> refs]

\* self.detection_data.copy(): a new mapping object that binds every role to
\* the very object the store binds it to at this moment.
CopyOfMapping(refs) == [map |-> "own", refs |-> refs]

\* What a reference stands for: 0 is the empty list of __init__.
Deref(objects, ref) == IF ref = 0 THEN EmptyList ELSE objects[ref]

\* What the holder of a mapping object reads through it.
ReadThrough(mapping, objects, refs) ==
    [r \in Roles |->
        Deref(objects, IF mapping.map = "store" THEN refs[r] ELSE mapping.refs[r])]

\* self.detection_data[role] = {...} in a worker: the dictionary display
\* creates a new object and the key is rebound to it; no existing object is
\* written.
WorkerProcessObject(c, results) ==
    /\ w_pc[c] = "process"
    /\ \E boxes \in results :
          /\ snapshot_objects' = Append(snapshot_objects, SnapshotOf(c, boxes, now))
          /\ detection_data' = Publish(detection_data, RoleOf(c), SnapshotOf(c, boxes, now))
    /\ store_refs' = [store_refs EXCEPT ![RoleOf(c)] = Len(snapshot_objects) + 1]
    /\ npub' = Min(npub + 1, MaxPublish)
    /\ w_pc' = [w_pc EXCEPT ![c] = "while"]
    /\ UNCHANGED <<zoneVars, dbVars, held, kpi_held, camVars, w_fails, w_recovered, reader_copy, now,
                   kpVars, supVars>>

\* A caller of get_detection_data keeps the mapping object it is handed;
\* reader_copy is what the caller reads through it as the call returns.
ReadStoreObject ==
    /\ held' = CopyOfMapping(store_refs)
    /\ reader_copy' = ReadThrough(held', snapshot_objects, store_refs)
    /\ held' # held
    /\ UNCHANGED <<zoneVars, dbVars, snapshot_objects, store_refs, kpi_held, camVars, storeVars,
                   workerVars, now, kpVars, supVars>>

\* The clock moves while the workers run.
TimePasses ==
    /\ now < MaxTime
    /\ now' = now + 1
    /\ UNCHANGED <<zoneVars, dbVars, objectVars, cmVars, kpVars, supVars>>

\* ------------------------------------------------- DatabaseManager.__init__
\* The threads that call the DatabaseManager.
DbClients == {"kpi_thread", "event_thread", "dashboard"}

\* The methods followed: two that write and one that reads.
DbWrites == {"save_kpi_record", "save_customer_event"}
DbReads == {"get_kpi_data"}

\* self.db_lock = threading.Lock(); initialize_database leaves empty tables.
InitDatabaseManager ==
    /\ customer_events = <<>>
    /\ alerts_table = <<>>
    /\ db_lock = "free"
    /\ db_pc = [t \in DbClients |-> "idle"]
    /\ db_call = [t \in DbClients |-> "none"]
    /\ db_result = [t \in DbClients |-> "none"]
    /\ db_added = [t \in DbClients |-> 0]

\* ---------------------------------------------------- KPIProcessor.__init__
\* The processor at position pc of start_processing, entered at time t.
AggregatorStartedAt(pc, running, t) ==
    /\ kp_running = running
    /\ kpis = InitialKpis
    /\ historical_data = InitialHistoricalData
    /\ agg_pc = pc
    /\ agg_detection_data = [r \in Roles |-> EmptyList]
    /\ agg_current_time = 0
    /\ agg_time = 0
    /\ last_save_time = t
    /\ agg_ticks = 0
    /\ agg_caught = FALSE
    /\ agg_starts = IF pc \in {"idle", "start"} THEN 0 ELSE 1
    /\ kpi_records = <<>>
    /\ InitDatabaseManager

AggregatorAt(pc, running) == AggregatorStartedAt(pc, running, 0)

InitKpiProcessor == AggregatorAt("idle", FALSE)

\* ------------------------------------------------------- start_processing
\* A start_processing that would begin from a fresh KPI state.
AggStartResets ==
    /\ agg_pc = "start"
    /\ kp_running' = TRUE
    /\ last_save_time' = now
    /\ agg_pc' = "while"
    /\ agg_starts' = Min(agg_starts + 1, MaxStarts)
    /\ kpis' = InitialKpis
    /\ historical_data' = InitialHistoricalData
    /\ UNCHANGED <<zoneVars, dbVars, objectVars, cmVars, now, agg_detection_data,
                   agg_current_time, agg_time, agg_ticks, agg_caught, kpi_records, supVars>>

\* self.running = True; last_save_time = time.time()
AggStart ==
    /\ agg_pc = "start"
    /\ kp_running' = TRUE
    /\ last_save_time' = now
    /\ agg_pc' = "while"
    /\ agg_starts' = Min(agg_starts + 1, MaxStarts)
    /\ UNCHANGED <<zoneVars, dbVars, objectVars, cmVars, now, kpiVars, agg_detection_data,
                   agg_current_time, agg_time, agg_ticks, agg_caught, kpi_records, supVars>>

\* while self.running: current_time = time.time()
AggWhile ==
    /\ agg_pc = "while"
    /\ IF kp_running
       THEN /\ agg_pc' = "pk_get"
            /\ agg_time' = now
            /\ agg_ticks' = Min(agg_ticks + 1, MaxTicks)
       ELSE /\ agg_pc' = "done"
            /\ UNCHANGED <<agg_time, agg_ticks>>
    /\ UNCHANGED <<zoneVars, dbVars, objectVars, cmVars, now, kp_running, kpiVars, agg_detection_data,
                   agg_current_time, last_save_time, agg_caught, agg_starts, kpi_records,
                   supVars>>

\* A process_kpis that would return when no role has a snapshot yet.
AggGetNeedsSnapshot ==
    /\ agg_pc = "pk_get"
    /\ LET copy == GetDetectionData(detection_data)
       IN IF \A r \in DOMAIN copy : copy[r] = EmptyList
          THEN /\ agg_pc' = "save_check"
               /\ UNCHANGED <<agg_detection_data, agg_current_time>>
          ELSE /\ agg_pc' = "pk_gate"
               /\ agg_detection_data' = copy
               /\ agg_current_time' = now
    /\ UNCHANGED <<zoneVars, dbVars, objectVars, cmVars, now, kp_running, kpiVars, agg_time, last_save_time, aggHist,
                   kpi_records, supVars>>

\* process_kpis: detection_data = get_detection_data(); an empty mapping
\* returns at once; current_time = datetime.now()
AggGet ==
    /\ agg_pc = "pk_get"
    /\ LET copy == GetDetectionData(detection_data)
       IN IF DOMAIN copy = {}
          THEN /\ agg_pc' = "save_check"
               /\ UNCHANGED <<agg_detection_data, agg_current_time>>
          ELSE /\ agg_pc' = "pk_gate"
               /\ agg_detection_data' = copy
               /\ agg_current_time' = now
    /\ UNCHANGED <<zoneVars, dbVars, objectVars, cmVars, now, kp_running, kpiVars, agg_time, last_save_time, aggHist,
                   kpi_records, supVars>>

\* update_customer_flow_kpis(detection_data.get('gate'), current_time)
AggGate ==
    /\ agg_pc = "pk_gate"
    /\ agg_pc' = "pk_parking"
    /\ LET gate_data == agg_detection_data["gate"]
       IN IF ~Truthy(gate_data)
          THEN UNCHANGED kpiVars
          ELSE LET cf == UpdateCustomerFlow(kpis.customer_flow, agg_current_time)
               IN /\ kpis' = [kpis EXCEPT !.customer_flow = cf]
                  /\ historical_data' =
                        EntriesPerHourAppend(historical_data, cf, agg_current_time)
    /\ UNCHANGED <<zoneVars, dbVars, objectVars, cmVars, now, kp_running, agg_detection_data, agg_current_time, agg_time,
                   last_save_time, aggHist, kpi_records, supVars>>

\* update_vehicle_kpis(detection_data.get('parking'), current_time)
AggParking ==
    /\ agg_pc = "pk_parking"
    /\ agg_pc' = "pk_queue"
    /\ LET parking_data == agg_detection_data["parking"]
       IN IF ~Truthy(parking_data)
          THEN UNCHANGED kpiVars
          ELSE LET vm == UpdateVehicleMetrics(kpis.vehicle_metrics, parking_data)
               IN /\ kpis' = [kpis EXCEPT !.vehicle_metrics = vm]
                  /\ historical_data' =
                        VehicleCountsAppend(historical_data, vm, agg_current_time)
    /\ UNCHANGED <<zoneVars, dbVars, objectVars, cmVars, now, kp_running, agg_detection_data, agg_current_time, agg_time,
                   last_save_time, aggHist, kpi_records, supVars>>

\* An update that would sample a snapshot only on the tick that finds it new.
AggQueueFreshOnly ==
    /\ agg_pc = "pk_queue"
    /\ LET queue_data == agg_detection_data["queue"]
       IN IF ~Truthy(queue_data) \/ queue_data.timestamp < agg_current_time
          THEN /\ agg_pc' = "pk_staff"
               /\ UNCHANGED kpiVars
          ELSE /\ agg_pc' = "pk_queue_history"
               /\ kpis' = [kpis EXCEPT !.queue_analytics =
                              QueueSetCurrent(@, queue_data.queue_length)]
               /\ UNCHANGED historical_data
    /\ UNCHANGED <<zoneVars, dbVars, objectVars, cmVars, now, kp_running, agg_detection_data, agg_current_time, agg_time,
                   last_save_time, aggHist, kpi_records, supVars>>

\* update_queue_kpis(detection_data.get('queue'), current_time), one
\* statement a step.  if not queue_data: return
AggQueue ==
    /\ agg_pc = "pk_queue"
    /\ LET queue_data == agg_detection_data["queue"]
       IN IF ~Truthy(queue_data)
          THEN /\ agg_pc' = "pk_staff"
               /\ UNCHANGED kpiVars
          ELSE /\ agg_pc' = "pk_queue_history"
               /\ kpis' = [kpis EXCEPT !.queue_analytics =
                              QueueSetCurrent(@, queue_data.queue_length)]
               /\ UNCHANGED historical_data
    /\ UNCHANGED <<zoneVars, dbVars, objectVars, cmVars, now, kp_running, agg_detection_data, agg_current_time, agg_time,
                   last_save_time, aggHist, kpi_records, supVars>>

AggQueueHistory ==
    /\ agg_pc = "pk_queue_history"
    /\ agg_pc' = "pk_queue_max"
    /\ kpis' = [kpis EXCEPT !.queue_analytics =
                   QueueHistoryAppend(@, agg_detection_data["queue"].queue_length,
                                      agg_current_time)]
    /\ UNCHANGED <<zoneVars, dbVars, objectVars, cmVars, now, kp_running, historical_data, agg_detection_data,
                   agg_current_time, agg_time, last_save_time, aggHist, kpi_records,
                   supVars>>

AggQueueMax ==
    /\ agg_pc = "pk_queue_max"
    /\ agg_pc' = "pk_queue_average"
    /\ kpis' = [kpis EXCEPT !.queue_analytics =
                   QueueUpdateMax(@, agg_detection_data["queue"].queue_length)]
    /\ UNCHANGED <<zoneVars, dbVars, objectVars, cmVars, now, kp_running, historical_data, agg_detection_data,
                   agg_current_time, agg_time, last_save_time, aggHist, kpi_records,
                   supVars>>

AggQueueAverage ==
    /\ agg_pc = "pk_queue_average"
    /\ agg_pc' = "pk_queue_lengths"
    /\ \E average \in QueueAverages(kpis.queue_analytics) :
          kpis' = [kpis EXCEPT !.queue_analytics.average_queue_length = average]
    /\ UNCHANGED <<zoneVars, dbVars, objectVars, cmVars, now, kp_running, historical_data, agg_detection_data,
                   agg_current_time, agg_time, last_save_time, aggHist, kpi_records,
                   supVars>>

AggQueueLengths ==
    /\ agg_pc = "pk_queue_lengths"
    /\ agg_pc' = "pk_staff"
    /\ historical_data' =
          QueueLengthsAppend(historical_data, agg_detection_data["queue"].queue_length,
                             agg_current_time)
    /\ UNCHANGED <<zoneVars, dbVars, objectVars, cmVars, now, kp_running, kpis, agg_detection_data, agg_current_time,
                   agg_time, last_save_time, aggHist, kpi_records, supVars>>

\* update_staff_kpis(detection_data.get('kitchen'), current_time)
AggStaff ==
    /\ agg_pc = "pk_staff"
    /\ agg_pc' = "pk_operational"
    /\ LET kitchen_data == agg_detection_data["kitchen"]
       IN IF ~Truthy(kitchen_data)
          THEN UNCHANGED kpiVars
          ELSE /\ kpis' = [kpis EXCEPT !.staff_metrics =
                              UpdateStaffMetrics(@, kitchen_data)]
               /\ historical_data' =
                     StaffCountsAppend(historical_data, kitchen_data.staff_count,
                                       agg_current_time)
    /\ UNCHANGED <<zoneVars, dbVars, objectVars, cmVars, now, kp_running, agg_detection_data, agg_current_time, agg_time,
                   last_save_time, aggHist, kpi_records, supVars>>

\* update_operational_kpis(current_time)
AggOperational ==
    /\ agg_pc = "pk_operational"
    /\ agg_pc' = "pk_alerts"
    /\ \E efficiency \in ServiceEfficiencies(kpis) :
          kpis' = [kpis EXCEPT !.operational_kpis =
                      UpdatePeakHours([@ EXCEPT !.service_efficiency = efficiency],
                                      kpis.customer_flow.hourly_entries)]
    /\ UNCHANGED <<zoneVars, dbVars, objectVars, cmVars, now, kp_running, historical_data, agg_detection_data,
                   agg_current_time, agg_time, last_save_time, aggHist, kpi_records,
                   supVars>>

\* check_and_generate_alerts(current_time): the rules and the extend ...
AggAlerts ==
    /\ agg_pc = "pk_alerts"
    /\ agg_pc' = "pk_alerts_trim"
    /\ kpis' = [kpis EXCEPT !.operational_kpis =
                   ExtendAlerts(@, NewAlerts(kpis, agg_current_time))]
    /\ UNCHANGED <<zoneVars, dbVars, objectVars, cmVars, now, kp_running, historical_data, agg_detection_data,
                   agg_current_time, agg_time, last_save_time, aggHist, kpi_records,
                   supVars>>

\* ... and the cut to the most recent ones; process_kpis returns.
AggAlertsTrim ==
    /\ agg_pc = "pk_alerts_trim"
    /\ agg_pc' = "save_check"
    /\ kpis' = [kpis EXCEPT !.operational_kpis = TrimAlerts(@)]
    /\ agg_detection_data' = [r \in Roles |-> EmptyList]
    /\ agg_current_time' = 0
    /\ UNCHANGED <<zoneVars, dbVars, objectVars, cmVars, now, kp_running, historical_data, agg_time, last_save_time,
                   aggHist, kpi_records, supVars>>

\* Update functions without handlers of their own: the error would reach the
\* handler of the loop.
AggInnerRaisesEscapes ==
    /\ \/ /\ agg_pc = "pk_gate" /\ Truthy(agg_detection_data["gate"])
          /\ agg_pc' = "except"
       \/ /\ agg_pc = "pk_parking" /\ Truthy(agg_detection_data["parking"])
          /\ agg_pc' = "except"
       \/ /\ agg_pc = "pk_queue" /\ Truthy(agg_detection_data["queue"])
          /\ agg_pc' = "except"
       \/ /\ agg_pc \in {"pk_queue_history", "pk_queue_max", "pk_queue_average",
                         "pk_queue_lengths"}
          /\ agg_pc' = "except"
       \/ /\ agg_pc = "pk_staff" /\ Truthy(agg_detection_data["kitchen"])
          /\ agg_pc' = "except"
       \/ /\ agg_pc = "pk_operational"
          /\ agg_pc' = "except"
    /\ UNCHANGED <<zoneVars, dbVars, objectVars, cmVars, now, kp_running, kpiVars, agg_detection_data, agg_current_time,
                   agg_time, last_save_time, aggHist, kpi_records, supVars>>

\* An error inside one update_* function or inside check_and_generate_alerts:
\* its own handler logs it and the function returns.
AggInnerRaises ==
    /\ \/ /\ agg_pc = "pk_gate" /\ Truthy(agg_detection_data["gate"])
          /\ agg_pc' = "pk_parking"
       \/ /\ agg_pc = "pk_parking" /\ Truthy(agg_detection_data["parking"])
          /\ agg_pc' = "pk_queue"
       \/ /\ agg_pc = "pk_queue" /\ Truthy(agg_detection_data["queue"])
          /\ agg_pc' = "pk_staff"
       \/ /\ agg_pc \in {"pk_queue_history", "pk_queue_max", "pk_queue_average",
                         "pk_queue_lengths"}
          /\ agg_pc' = "pk_staff"
       \/ /\ agg_pc = "pk_staff" /\ Truthy(agg_detection_data["kitchen"])
          /\ agg_pc' = "pk_operational"
       \/ /\ agg_pc = "pk_operational"
          /\ agg_pc' = "pk_alerts"
    /\ UNCHANGED <<zoneVars, dbVars, objectVars, cmVars, now, kp_running, kpiVars, agg_detection_data, agg_current_time,
                   agg_time, last_save_time, aggHist, kpi_records, supVars>>

AggAlertsRaise ==
    /\ agg_pc \in {"pk_alerts", "pk_alerts_trim"}
    /\ agg_pc' = "save_check"
    /\ agg_detection_data' = [r \in Roles |-> EmptyList]
    /\ agg_current_time' = 0
    /\ UNCHANGED <<zoneVars, dbVars, objectVars, cmVars, now, kp_running, kpiVars, agg_time, last_save_time,
                   aggHist, kpi_records, supVars>>

\* save_kpi_record(kpi_data): the INSERT and commit under db_lock.
SaveKpiRecord(rows, kpi_data) == Append(rows, kpi_data)

\* save_customer_event(event_type, timestamp): the INSERT and commit.
SaveCustomerEvent(rows, event_type, timestamp) ==
    Append(rows, [event_type |-> event_type, timestamp |-> timestamp])

\* A thread calls a method of the DatabaseManager and enters its try block.
\* A write is called while its table has fewer than MaxRows rows.
DbCall(t, method) ==
    /\ db_pc[t] = "idle"
    /\ method = "save_kpi_record" => Len(kpi_records) < MaxRows
    /\ method = "save_customer_event" => Len(customer_events) < MaxRows
    /\ db_pc' = [db_pc EXCEPT ![t] = "acquire"]
    /\ db_call' = [db_call EXCEPT ![t] = method]
    /\ db_result' = [db_result EXCEPT ![t] = "none"]
    /\ db_added' = [db_added EXCEPT ![t] = 0]
    /\ UNCHANGED <<zoneVars, customer_events, alerts_table, db_lock, objectVars, cmVars, now, kpVars, supVars>>

\* An entry into the method body that would not wait for the lock.
DbAcquireUnlocked(t) ==
    /\ db_pc[t] = "acquire"
    /\ db_lock' = t
    /\ db_pc' = [db_pc EXCEPT ![t] = "inside"]
    /\ UNCHANGED <<zoneVars, customer_events, alerts_table, db_call, db_result, db_added, objectVars, cmVars,
                   now, kpVars, supVars>>

\* with self.db_lock: the thread waits until the lock is free and takes it.
DbAcquire(t) ==
    /\ db_pc[t] = "acquire"
    /\ db_lock = "free"
    /\ db_lock' = t
    /\ db_pc' = [db_pc EXCEPT ![t] = "inside"]
    /\ UNCHANGED <<zoneVars, customer_events, alerts_table, db_call, db_result, db_added, objectVars, cmVars,
                   now, kpVars, supVars>>

\* The body of the with block: connect, execute, commit or fetch, close.  It
\* either completes or raises at some statement before the commit; a write
\* that raises has appended nothing.
DbOperate(t, db_outcomes) ==
    /\ db_pc[t] = "inside"
    /\ \E outcome \in db_outcomes :
          /\ db_result' = [db_result EXCEPT ![t] = outcome]
          /\ IF outcome = "ok" /\ db_call[t] = "save_kpi_record"
             THEN /\ kpi_records' = SaveKpiRecord(kpi_records, KpiRecord(kpis, now))
                  /\ db_added' = [db_added EXCEPT ![t] = @ + 1]
                  /\ UNCHANGED customer_events
             ELSE IF outcome = "ok" /\ db_call[t] = "save_customer_event"
             THEN /\ \E event_type \in {"entry", "exit"} :
                        customer_events' = SaveCustomerEvent(customer_events, event_type, now)
                  /\ db_added' = [db_added EXCEPT ![t] = @ + 1]
                  /\ UNCHANGED kpi_records
             ELSE UNCHANGED <<kpi_records, customer_events, db_added>>
    /\ db_pc' = [db_pc EXCEPT ![t] = "leaving"]
    /\ UNCHANGED <<zoneVars, alerts_table, db_lock, db_call, objectVars, cmVars, now, kp_running, kpiVars,
                   aggVars, supVars>>

\* A with block that would keep the lock when its body has raised.
DbReleaseUnlessRaised(t) ==
    /\ db_pc[t] = "leaving"
    /\ db_lock' = IF db_result[t] = "raised" THEN db_lock ELSE "free"
    /\ db_pc' = [db_pc EXCEPT ![t] = "idle"]
    /\ UNCHANGED <<zoneVars, customer_events, alerts_table, db_call, db_result, db_added, objectVars, cmVars,
                   now, kpVars, supVars>>

\* The with block is left, by the return or by the exception: the lock is
\* released; the handler logs the exception and the method returns.
DbRelease(t) ==
    /\ db_pc[t] = "leaving"
    /\ db_lock' = "free"
    /\ db_pc' = [db_pc EXCEPT ![t] = "idle"]
    /\ UNCHANGED <<zoneVars, customer_events, alerts_table, db_call, db_result, db_added, objectVars, cmVars,
                   now, kpVars, supVars>>

\* ------------------------------------------------------------ cleanup_old_data
\* timedelta(days=90): the age in days past which an alert is deleted.
AlertRetentionDays == 90

\* DELETE FROM table WHERE timestamp < cutoff: the rows that stay.
DeleteOlderThan(rows, cutoff) == SelectSeq(rows, LAMBDA row : ~(row.timestamp < cutoff))

\* cleanup_old_data(retention_days) called by thread t, from its entry to its
\* return, with the clock in days: under the lock, the tables of events and
\* summaries lose their rows older than now - retention_days and the alerts
\* table its rows older than now - 90.
CleanupOldData(t, retention_days) ==
    /\ db_pc[t] = "idle"
    /\ db_lock = "free"
    /\ db_call' = [db_call EXCEPT ![t] = "cleanup_old_data"]
    /\ db_result' = [db_result EXCEPT ![t] = "ok"]
    /\ db_added' = [db_added EXCEPT ![t] = 0]
    /\ kpi_records' = DeleteOlderThan(kpi_records, now - retention_days)
    /\ customer_events' = DeleteOlderThan(customer_events, now - retention_days)
    /\ alerts_table' = DeleteOlderThan(alerts_table, now - AlertRetentionDays)
    /\ UNCHANGED <<zoneVars, db_lock, db_pc, objectVars, cmVars, now, kp_running, kpiVars,
                   aggVars, supVars>>

\* A flush whose failed write would reach the handler of the loop.
AggSaveCheckRaises(db_outcomes) ==
    /\ agg_pc = "save_check"
    /\ IF agg_time - last_save_time >= analytics_config.save_interval
       THEN \E outcome \in db_outcomes :
               IF outcome = "ok"
               THEN /\ kpi_records' = SaveKpiRecord(kpi_records, KpiRecord(kpis, now))
                    /\ last_save_time' = agg_time
                    /\ agg_pc' = "sleep"
               ELSE /\ agg_pc' = "except"
                    /\ UNCHANGED <<kpi_records, last_save_time>>
       ELSE /\ agg_pc' = "sleep"
            /\ UNCHANGED <<kpi_records, last_save_time>>
    /\ UNCHANGED <<zoneVars, dbVars, objectVars, cmVars, now, kp_running, kpiVars, agg_detection_data,
                   agg_current_time, agg_time, aggHist, supVars>>

\* A tick that would flush whether or not the interval has elapsed.
AggSaveCheckEveryTick(db_outcomes) ==
    /\ agg_pc = "save_check"
    /\ agg_pc' = "sleep"
    /\ \E outcome \in db_outcomes :
          IF outcome = "ok"
          THEN kpi_records' = SaveKpiRecord(kpi_records, KpiRecord(kpis, now))
          ELSE UNCHANGED kpi_records
    /\ last_save_time' = agg_time
    /\ UNCHANGED <<zoneVars, dbVars, objectVars, cmVars, now, kp_running, kpiVars, agg_detection_data, agg_current_time,
                   agg_time, aggHist, supVars>>

\* if current_time - last_save_time >= self.save_interval:
\*     save_kpis_to_database(); last_save_time = current_time
\* A failing database write is logged inside save_kpi_record.
AggSaveCheck(db_outcomes) ==
    /\ agg_pc = "save_check"
    /\ agg_pc' = "sleep"
    /\ IF agg_time - last_save_time >= analytics_config.save_interval
       THEN /\ \E outcome \in db_outcomes :
                  IF outcome = "ok"
                  THEN kpi_records' = SaveKpiRecord(kpi_records, KpiRecord(kpis, now))
                  ELSE UNCHANGED kpi_records
            /\ last_save_time' = agg_time
       ELSE UNCHANGED <<kpi_records, last_save_time>>
    /\ UNCHANGED <<zoneVars, dbVars, objectVars, cmVars, now, kp_running, kpiVars, agg_detection_data, agg_current_time,
                   agg_time, aggHist, supVars>>

\* time.sleep(self.update_interval)
AggSleep ==
    /\ agg_pc = "sleep"
    /\ agg_pc' = "while"
    /\ now' = Min(now + analytics_config.update_interval, MaxTime)
    /\ agg_time' = 0
    /\ UNCHANGED <<zoneVars, dbVars, objectVars, cmVars, kp_running, kpiVars, agg_detection_data, agg_current_time,
                   last_save_time, aggHist, kpi_records, supVars>>

\* A statement of the loop body that no inner handler covers raises: the
\* get_detection_data call of process_kpis, or the sleep.  The flush is not
\* among them, as save_kpis_to_database handles whatever its body raises.
AggRaises ==
    /\ agg_pc \in {"pk_get", "sleep"}
    /\ agg_pc' = "except"
    /\ agg_time' = 0
    /\ UNCHANGED <<zoneVars, dbVars, objectVars, cmVars, now, kp_running, kpiVars, agg_detection_data, agg_current_time,
                   last_save_time, aggHist, kpi_records, supVars>>

\* A handler that would give the loop up.
AggExceptStops ==
    /\ agg_pc = "except"
    /\ agg_pc' = "done"
    /\ now' = Min(now + 1, MaxTime)
    /\ agg_caught' = TRUE
    /\ UNCHANGED <<zoneVars, dbVars, objectVars, cmVars, kp_running, kpiVars, agg_detection_data, agg_current_time,
                   agg_time, last_save_time, agg_ticks, agg_starts, kpi_records, supVars>>

\* except Exception: logger.error(...); time.sleep(5)
AggExcept ==
    /\ agg_pc = "except"
    /\ agg_pc' = "while"
    /\ now' = Min(now + 1, MaxTime)
    /\ agg_caught' = TRUE
    /\ UNCHANGED <<zoneVars, dbVars, objectVars, cmVars, kp_running, kpiVars, agg_detection_data, agg_current_time,
                   agg_time, last_save_time, agg_ticks, agg_starts, kpi_records, supVars>>

\* A caller stops the processor while it runs: stop_processing().
StopProcessingCall ==
    /\ kp_running
    /\ kp_running' = FALSE
    /\ UNCHANGED <<zoneVars, dbVars, objectVars, cmVars, now, kpiVars, aggVars, kpi_records, supVars>>

\* The thread has left start_processing and a caller starts a new thread on
\* it, as start_system does.
StartProcessingCall ==
    /\ agg_pc = "done"
    /\ agg_starts < MaxStarts
    /\ agg_pc' = "start"
    /\ UNCHANGED <<zoneVars, dbVars, objectVars, cmVars, now, kp_running, kpiVars, agg_detection_data,
                   agg_current_time, agg_time, last_save_time, aggHist, kpi_records,
                   supVars>>

\* ------------------------------------------------------------ get_current_kpis
\* A get_current_kpis that would copy the dictionary of every category too.
DeepCopyOfKpis(k) == [taken |-> TRUE, shared |-> {}, at_call |-> k]

\* self.kpis.copy(): a new mapping object that binds every category to the
\* dictionary self.kpis binds it to; no category dictionary is copied.
\* at_call is what the dictionaries held as the call returned.
CopyOfKpis(k) == [taken |-> TRUE, shared |-> DOMAIN k, at_call |-> k]

\* What a caller reads through the mapping it was handed: a category whose
\* dictionary is the aggregator's own shows what the aggregator has written
\* to it since.
ReadThroughKpis(h, k) ==
    [cat \in DOMAIN h.at_call |-> IF cat \in h.shared THEN k[cat] ELSE h.at_call[cat]]

\* A caller of get_current_kpis keeps the mapping it is handed.
GetCurrentKpis ==
    /\ kpi_held' = CopyOfKpis(kpis)
    /\ kpi_held' # kpi_held
    /\ UNCHANGED <<zoneVars, dbVars, snapshot_objects, store_refs, held, cmVars, now, kpVars, supVars>>

\* One step of process_kpis.
AggProcessKpis ==
    \/ AggGet \/ AggGate \/ AggParking
    \/ AggQueue \/ AggQueueHistory \/ AggQueueMax \/ AggQueueAverage \/ AggQueueLengths
    \/ AggStaff \/ AggOperational \/ AggAlerts \/ AggAlertsTrim

\* ------------------------------------------------------------ start_monitoring
\* A start_monitoring that would go through the configured cameras.
ConfiguredOrder == CameraOrder

\* self.cameras.keys(): the cameras that opened, in configuration order.
OpenedOrder == SelectSeq(CameraOrder, LAMBDA c : cameras[c] # "absent")

\* self.running = True
MonStart ==
    /\ mon_pc = "start"
    /\ cm_running' = TRUE
    /\ mon_pc' = "loop"
    /\ mon_i' = 1
    /\ UNCHANGED <<zoneVars, dbVars, objectVars, cameras, camera_threads, storeVars, workerVars, reader_copy, now,
                   kpVars, sys_running, threads, sup_pc, sup_i, sup_iter_size,
                   sup_stops>>

\* for camera_name in self.cameras.keys(): thread = Thread(...); thread.start()
\* The new thread enters process_camera_feed and stands at its loop test.
MonSpawnWorker ==
    /\ mon_pc = "loop"
    /\ IF mon_i <= Len(OpenedOrder)
       THEN /\ w_pc' = [w_pc EXCEPT ![OpenedOrder[mon_i]] = "while"]
            /\ mon_pc' = "record"
       ELSE /\ mon_pc' = "done"
            /\ UNCHANGED w_pc
    /\ UNCHANGED <<zoneVars, dbVars, objectVars, camVars, storeVars, w_fails, w_recovered, reader_copy, now, kpVars,
                   sys_running, threads, sup_pc, sup_i, sup_iter_size, mon_i,
                   sup_stops>>

\* self.camera_threads[camera_name] = thread
MonRecordThread ==
    /\ mon_pc = "record"
    /\ camera_threads' = Append(camera_threads, OpenedOrder[mon_i])
    /\ mon_i' = mon_i + 1
    /\ mon_pc' = "loop"
    /\ UNCHANGED <<zoneVars, dbVars, objectVars, cameras, cm_running, storeVars, workerVars, reader_copy, now, kpVars,
                   sys_running, threads, sup_pc, sup_i, sup_iter_size,
                   sup_stops>>

\* ------------------------------------------------------------- stop_monitoring
\* self.running = False (of the system and of the camera manager)
StopSystem ==
    /\ sup_pc = "started"
    /\ sys_running' = FALSE
    /\ cm_running' = FALSE
    /\ sup_pc' = "sm_release"
    /\ sup_stops' = IF sup_stops < MaxStops THEN sup_stops + 1 ELSE sup_stops
    /\ UNCHANGED <<zoneVars, dbVars, objectVars, cameras, camera_threads, storeVars, workerVars, reader_copy, now,
                   kpVars, threads, sup_i, sup_iter_size, mon_pc, mon_i>>

\* stop_system called again after an earlier call has returned: the same
\* statements run from the top, nothing tests whether the system is running.
StopSystemAgain ==
    /\ sup_pc = "stopped"
    /\ sup_stops < MaxStops
    /\ sys_running' = FALSE
    /\ cm_running' = FALSE
    /\ sup_pc' = "sm_release"
    /\ sup_stops' = sup_stops + 1
    /\ UNCHANGED <<zoneVars, dbVars, objectVars, cameras, camera_threads, storeVars, workerVars, reader_copy, now,
                   kpVars, threads, sup_i, sup_iter_size, mon_pc, mon_i>>

\* A release that refuses a capture that was released before.
StopMonitoringReleaseStrict ==
    /\ sup_pc = "sm_release"
    /\ IF \E c \in CameraNames : cameras[c] = "released"
       THEN /\ sup_pc' = "stop_raised"
            /\ UNCHANGED <<cameras, sup_iter_size, sup_i>>
       ELSE /\ cameras' = [c \in CameraNames |->
                              IF cameras[c] = "open" THEN "released" ELSE cameras[c]]
            /\ sup_iter_size' = Len(camera_threads)
            /\ sup_i' = 1
            /\ sup_pc' = "sm_join"
    /\ UNCHANGED <<zoneVars, dbVars, objectVars, cm_running, camera_threads, storeVars, workerVars, reader_copy, now,
                   kpVars, sys_running, threads, mon_pc, mon_i,
                   sup_stops>>

\* for camera in self.cameras.values(): camera.release(); then the iterator
\* over self.camera_threads.values() is made: it remembers the size.
StopMonitoringRelease ==
    /\ sup_pc = "sm_release"
    /\ cameras' = [c \in CameraNames |->
                      IF cameras[c] = "open" THEN "released" ELSE cameras[c]]
    /\ sup_iter_size' = Len(camera_threads)
    /\ sup_i' = 1
    /\ sup_pc' = "sm_join"
    /\ UNCHANGED <<zoneVars, dbVars, objectVars, cm_running, camera_threads, storeVars, workerVars, reader_copy, now,
                   kpVars, sys_running, threads, mon_pc, mon_i,
                   sup_stops>>

\* One round of "for thread in self.camera_threads.values()": the iterator
\* raises RuntimeError when the dictionary has changed size, and nothing in
\* stop_monitoring or stop_system catches it; otherwise the loop ends or
\* thread.join(timeout=5) returns, the thread finished or not.
StopMonitoringJoin ==
    /\ sup_pc = "sm_join"
    /\ IF Len(camera_threads) # sup_iter_size
       THEN sup_pc' = "stop_raised" /\ UNCHANGED sup_i
       ELSE IF sup_i > sup_iter_size
       THEN sup_pc' = "stop_processing" /\ UNCHANGED sup_i
       ELSE sup_pc' = "sm_join" /\ sup_i' = sup_i + 1
    /\ UNCHANGED <<zoneVars, dbVars, objectVars, cmVars, now, kpVars, sys_running, threads, sup_iter_size, mon_pc, mon_i,
                   sup_stops>>

\* ------------------------------------------------------------ specifications
\* The state in which start_system has returned and start_monitoring has
\* started a worker for each camera that opened.
SystemStartedAt(opened, t) ==
    /\ cameras = [c \in CameraNames |-> IF c \in opened THEN "open" ELSE "absent"]
    /\ NoObjects
    /\ cm_running = TRUE
    /\ camera_threads = SelectSeq(CameraOrder, LAMBDA c : c \in opened)
    /\ w_pc = [c \in CameraNames |-> IF c \in opened THEN "while" ELSE "idle"]
    /\ w_fails = [c \in CameraNames |-> 0]
    /\ w_recovered = [c \in CameraNames |-> 0]
    /\ npub = 0
    /\ reader_copy = [r \in Roles |-> EmptyList]
    /\ now = t
    /\ sys_running = TRUE
    /\ threads = <<"camera_thread", "kpi_thread">>
    /\ sup_pc = "started"
    /\ sup_i = 0
    /\ sup_iter_size = 0
    /\ sup_stops = 0
    /\ mon_pc = "done"
    /\ mon_i = Cardinality(opened) + 1

SystemStarted(opened) == SystemStartedAt(opened, 0)

\* Running workers over an empty store, for every pair of cameras that
\* opened; the aggregator thread has not run yet.
InitWorkers ==
    \E opened \in {S \in SUBSET CameraNames : Cardinality(S) = 2} :
        /\ ConfiguredWith(camera_config["queue_camera"].queue_zones)
        /\ SystemStarted(opened)
        /\ detection_data = [r \in Roles |-> EmptyList]
        /\ AggregatorAt("start", FALSE)

\* The detection store under running workers and a reader.
NextStore ==
    \/ \E c \in CameraNames : WorkerWhile(c)
    \/ \E c \in CameraNames : WorkerReadOk(c)
    \/ \E c \in CameraNames : WorkerProcessRaises(c)
    \/ \E c \in CameraNames : npub < MaxPublish /\ WorkerProcess(c, InferenceResults)
    \/ ReadStore
    \/ TimePasses

SpecStore == InitWorkers /\ [][NextStore]_vars

\* Running workers whose sources may fail to deliver a frame.
NextRetry ==
    \/ \E c \in CameraNames : WorkerWhile(c)
    \/ \E c \in CameraNames : WorkerReadOk(c)
    \/ \E c \in CameraNames : WorkerReadFail(c)
    \/ \E c \in CameraNames : WorkerProcessRaises(c)
    \/ \E c \in CameraNames : npub < MaxPublish /\ WorkerProcess(c, InferenceResults)

SpecRetry == InitWorkers /\ [][NextRetry]_vars

\* Running workers and a caller of get_detection_data, with the identity of
\* every dictionary followed.
NextCopy ==
    \/ \E c \in CameraNames : WorkerWhile(c)
    \/ \E c \in CameraNames : WorkerReadOk(c)
    \/ \E c \in CameraNames : npub < MaxPublish /\ WorkerProcessObject(c, InferenceResults)
    \/ ReadStoreObject

SpecCopy == InitWorkers /\ [][NextCopy]_vars

\* The store as the workers of the opened cameras may have left it by the
\* time the aggregator looks at it: each role still empty or holding one
\* snapshot.
StoresAtStart(opened) ==
    {dd \in [Roles -> {EmptyList} \cup
                      {SnapshotOf(c, boxes, 0) : c \in opened, boxes \in InferenceResults}] :
        \A r \in Roles :
            dd[r] # EmptyList =>
                \E c \in opened, boxes \in InferenceResults :
                    RoleOf(c) = r /\ dd[r] = SnapshotOf(c, boxes, 0)}

\* The aggregator loop over running workers, from the moment start_processing
\* reaches its loop.
InitKpi ==
    \E opened \in SUBSET {"queue_camera", "kitchen_camera"} :
        /\ ConfiguredWith(camera_config["queue_camera"].queue_zones)
        /\ SystemStarted(opened)
        /\ detection_data \in StoresAtStart(opened)
        /\ AggregatorAt("while", TRUE)

NextKpi ==
    \/ \E c \in CameraNames : WorkerWhile(c)
    \/ \E c \in CameraNames : WorkerReadOk(c)
    \/ \E c \in CameraNames : npub < MaxKpiPublish /\ WorkerProcess(c, InferenceResults)
    \/ agg_ticks < MaxTicks /\ AggWhile
    \/ AggProcessKpis
    \/ AggSaveCheck({"ok"})
    \/ AggSleep

SpecKpi == InitKpi /\ [][NextKpi]_vars

\* The aggregator loop with statements that raise and database writes that
\* fail, over a store the workers have filled.
NextFault ==
    \/ agg_ticks < MaxTicks /\ AggWhile
    \/ AggProcessKpis
    \/ AggRaises
    \/ AggExcept
    \/ AggSaveCheck({"ok", "fail"})
    \/ AggSleep

SpecFault == InitKpi /\ [][NextFault]_vars

\* The aggregator loop over the queue worker alone, which sees 2, 4, 6 or 8
\* people standing in zone A.
QueueFeed == {[i \in 1..n |-> Box(0, 50, 5, 5)] : n \in {2, 4, 6, 8}}

InitRing ==
    /\ ConfiguredWith(camera_config["queue_camera"].queue_zones)
    /\ SystemStarted({"queue_camera"})
    /\ detection_data = [r \in Roles |-> EmptyList]
    /\ AggregatorAt("while", TRUE)

NextRing ==
    \/ \E c \in CameraNames : WorkerWhile(c)
    \/ \E c \in CameraNames : WorkerReadOk(c)
    \/ \E c \in CameraNames : WorkerProcess(c, QueueFeed)
    \/ agg_ticks < MaxTicks /\ AggWhile
    \/ AggProcessKpis
    \/ AggSaveCheck({"ok"})
    \/ AggSleep

SpecRing == InitRing /\ [][NextRing]_vars

\* The queue worker under every configuration of at most MaxZones zones,
\* overlapping ones included, over frames whose boxes lie inside, on the edge
\* of and outside the zones.
ZoneChoices ==
    {[name |-> "A", x |-> 0, y |-> 0, width |-> 10, height |-> 10],
     [name |-> "B", x |-> 0, y |-> 0, width |-> 20, height |-> 20],
     [name |-> "C", x |-> 10, y |-> 10, width |-> 10, height |-> 10],
     [name |-> "D", x |-> 30, y |-> 30, width |-> 5, height |-> 5]}

ZoneLists == SeqsUpTo(ZoneChoices, MaxZones)

\* A person at each centre, a low-confidence person and a car.
ZoneBoxes ==
    {Box(0, 50, p[1], p[2]) : p \in Centres} \cup {Box(0, 49, 5, 5), Box(2, 50, 5, 5)}

QueueFrames == SeqsUpTo(ZoneBoxes, MaxBoxes)

InitZones ==
    \E zones \in ZoneLists :
        /\ ConfiguredWith(zones)
        /\ SystemStarted({"queue_camera"})
        /\ detection_data = [r \in Roles |-> EmptyList]
        /\ AggregatorAt("start", FALSE)

\* process_queue_camera(frame) in the queue worker, with the boxes of the
\* frame remembered.
ProcessQueueCamera(results) ==
    /\ w_pc["queue_camera"] = "process"
    /\ \E boxes \in results :
          /\ queue_boxes' = boxes
          /\ detection_data' = Publish(detection_data, "queue", QueueSnapshot(boxes, now))
    /\ npub' = Min(npub + 1, MaxPublish)
    /\ w_pc' = [w_pc EXCEPT !["queue_camera"] = "while"]
    /\ UNCHANGED <<queue_zones, kitchen_boxes, dbVars, objectVars, camVars, w_fails, w_recovered, reader_copy, now,
                   kpVars, supVars>>

NextZones ==
    \/ \E c \in CameraNames : WorkerWhile(c)
    \/ \E c \in CameraNames : WorkerReadOk(c)
    \/ ProcessQueueCamera(QueueFrames)

SpecZones == InitZones /\ [][NextZones]_vars

\* The aggregator loop over the queue worker, with every snapshot dictionary
\* the worker creates remembered in the order of creation.
NextBacklog ==
    \/ \E c \in CameraNames : WorkerWhile(c)
    \/ \E c \in CameraNames : WorkerReadOk(c)
    \/ \E c \in CameraNames : npub < MaxPublish /\ WorkerProcessObject(c, QueueFeed)
    \/ agg_ticks < MaxTicks /\ AggWhile
    \/ AggProcessKpis
    \/ AggSaveCheck({"ok"})
    \/ AggSleep

SpecBacklog == InitRing /\ [][NextBacklog]_vars

\* The aggregator loop over the queue worker, stopped and started again.
InitRestart ==
    /\ ConfiguredWith(camera_config["queue_camera"].queue_zones)
    /\ SystemStarted({"queue_camera"})
    /\ detection_data \in StoresAtStart({"queue_camera"})
    /\ AggregatorAt("while", TRUE)

NextRestart ==
    \/ \E c \in CameraNames : WorkerWhile(c)
    \/ \E c \in CameraNames : WorkerReadOk(c)
    \/ \E c \in CameraNames : npub < MaxKpiPublish /\ WorkerProcess(c, InferenceResults)
    \/ AggStart
    \/ (agg_ticks < MaxTicks \/ ~kp_running) /\ AggWhile
    \/ AggProcessKpis
    \/ AggSaveCheck({"ok"})
    \/ AggSleep
    \/ StopProcessingCall
    \/ StartProcessingCall

SpecRestart == InitRestart /\ [][NextRestart]_vars

\* The whole system from construction: start_system, the threads it starts,
\* and a stop_system call that may come at any moment after start_system has
\* returned.  One camera opened; the frames show nobody.
EmptyFrames == {<<>>}

InitLife ==
    /\ ConfiguredWith(camera_config["queue_camera"].queue_zones)
    /\ InitCameraManager({"queue_camera"})
    /\ InitKpiProcessor
    /\ InitSupervisor

SupervisorStep ==
    \/ StartSystemCamera
    \/ StartSystemKpi
    \/ StopMonitoringRelease
    \/ StopMonitoringJoin
    \/ StopProcessing
    \/ StopSystemJoin

MonitorStep == MonStart \/ MonSpawnWorker \/ MonRecordThread

WorkerStep(c) ==
    \/ WorkerWhile(c)
    \/ WorkerReadOk(c)
    \/ WorkerReadFail(c)
    \/ WorkerProcess(c, EmptyFrames)

AggregatorStep ==
    \/ AggStart
    \/ (agg_ticks < MaxLifeTicks \/ ~kp_running) /\ AggWhile
    \/ AggProcessKpis
    \/ AggSaveCheck({"ok"})
    \/ AggSleep

NextLife ==
    \/ SupervisorStep
    \/ StopSystem
    \/ MonitorStep
    \/ \E c \in CameraNames : WorkerStep(c)
    \/ \E c \in CameraNames : WorkerBlocks(c)
    \/ AggregatorStep

\* Every thread that can take a step is eventually scheduled; nothing obliges
\* anybody to call stop_system, and nothing obliges a read to hang.
SpecLife ==
    /\ InitLife
    /\ [][NextLife]_vars
    /\ WF_vars(SupervisorStep)
    /\ WF_vars(MonitorStep)
    /\ \A c \in CameraNames : WF_vars(WorkerStep(c))
    /\ WF_vars(AggregatorStep)

\* ------------------------------------------------------------------ claims
\* The snapshots one publish can write for a role.
WholeSnapshots(r) ==
    {SnapshotOf(c, boxes, t) :
        c \in {d \in CameraNames : RoleOf(d) = r}, boxes \in InferenceResults,
        t \in 0..MaxTime}

\* C1: whatever publishes and get_detection_data calls interleave, the value a
\* reader holds for a role is the initial empty list or exactly one snapshot
\* that a single publish wrote in full; count, detections and timestamp never
\* come from two publishes.
C1_ReaderSeesWholeSnapshot ==
    \A r \in Roles : reader_copy[r] = EmptyList \/ reader_copy[r] \in WholeSnapshots(r)

\* A reader holds a snapshot of a role that a later publish has already replaced.
C1_Witness ==
    \E r \in Roles :
        /\ reader_copy[r] # EmptyList
        /\ detection_data[r] # EmptyList
        /\ detection_data[r].timestamp > reader_copy[r].timestamp
        /\ detection_data[r].detections # reader_copy[r].detections

\* C2: in every reachable state of the KPI state, the states between the
\* assignments of update_queue_kpis included (get_current_kpis hands a reader
\* the live inner dictionaries), max_queue_length >= current_queue_length.
C2_MaxAtLeastCurrent ==
    kpis.queue_analytics.max_queue_length >= kpis.queue_analytics.current_queue_length

\* C4: in every reachable state, the states inside check_and_generate_alerts
\* included, the alert list holds at most the retained number of entries
\* (100 in the code).
C4_AlertsNeverExceedLimit ==
    Len(kpis.operational_kpis.alerts) <= AlertsKeep

\* C10: whenever update_operational_kpis runs with current_staff_count = 0,
\* service_efficiency keeps exactly the value it had before the call.
C10_EfficiencyKeptWithoutStaff ==
    [][(/\ agg_pc = "pk_operational"
        /\ agg_pc' = "pk_alerts"
        /\ kpis.staff_metrics.current_staff_count = 0)
       => kpis'.operational_kpis.service_efficiency =
             kpis.operational_kpis.service_efficiency]_vars

\* update_operational_kpis has just returned, with no staff present and an
\* efficiency that an earlier tick had computed.
C10_Witness ==
    /\ agg_pc = "pk_alerts"
    /\ kpis.staff_metrics.current_staff_count = 0
    /\ kpis.operational_kpis.service_efficiency > 0

\* update_queue_kpis is not between its history append and its average.
QueueKpisSettled ==
    agg_pc \notin {"pk_queue_history", "pk_queue_max", "pk_queue_average"}

RingLengths == [i \in DOMAIN kpis.queue_analytics.queue_history |->
                    kpis.queue_analytics.queue_history[i].length]

FedLengths == [i \in DOMAIN historical_data.queue_lengths |->
                    historical_data.queue_lengths[i].length]

\* The last n entries of a sequence.
LastN(q, n) == IF Len(q) <= n THEN q ELSE SubSeq(q, Len(q) - n + 1, Len(q))

\* C3 as stated: after every update_queue_kpis call with a present snapshot,
\* average_queue_length equals the arithmetic mean of the lengths held in the
\* queue_history ring (here: average in hundredths times the number of
\* samples equals one hundred times their sum).
C3_AverageIsExactMean ==
    (QueueKpisSettled /\ kpis.queue_analytics.queue_history # <<>>)
        => kpis.queue_analytics.average_queue_length * Len(kpis.queue_analytics.queue_history)
              = 100 * SumLengths(kpis.queue_analytics.queue_history)

\* The average is the mean of the ring rounded to two decimals.
AverageIsRoundedMean ==
    (QueueKpisSettled /\ kpis.queue_analytics.queue_history # <<>>)
        => LET n == Len(kpis.queue_analytics.queue_history)
               d == kpis.queue_analytics.average_queue_length * n
                        - 100 * SumLengths(kpis.queue_analytics.queue_history)
           IN 2 * d <= n /\ 2 * (0 - d) <= n

\* The history append keeps the most recent QueueHistoryMaxLen samples, and
\* nothing else changes the ring.
RingKeepsMostRecent ==
    LET ring == kpis.queue_analytics.queue_history
        sample == [length |-> agg_detection_data["queue"].queue_length,
                   timestamp |-> agg_current_time]
    IN IF agg_pc = "pk_queue_history" /\ agg_pc' = "pk_queue_max"
       THEN kpis'.queue_analytics.queue_history
                = LastN(Append(ring, sample), QueueHistoryMaxLen)
       ELSE kpis'.queue_analytics.queue_history = ring

\* Capacity 3 and the lengths 2, 4, 6, 8 fed in order: average 6.00, maximum 8.
ScenarioTwoFourSixEight ==
    (QueueHistoryMaxLen = 3 /\ QueueKpisSettled /\ FedLengths = <<2, 4, 6, 8>>)
        => /\ kpis.queue_analytics.average_queue_length = 600
           /\ kpis.queue_analytics.max_queue_length = 8

\* C3, amended: after every update_queue_kpis call with a present snapshot,
\* average_queue_length equals the arithmetic mean of the lengths in the
\* queue_history ring rounded to two decimals; the ring holds exactly the most
\* recent N samples; with capacity 3 and 2, 4, 6, 8 fed in order the average
\* is 6 and max_queue_length is 8.
C3_AverageIsRoundedMeanOfRecent ==
    /\ [](AverageIsRoundedMean /\ ScenarioTwoFourSixEight)
    /\ [][RingKeepsMostRecent]_vars

\* The scenario has run: four samples fed, the oldest evicted from the ring.
C3_Witness ==
    /\ agg_pc = "pk_staff"
    /\ FedLengths = <<2, 4, 6, 8>>
    /\ RingLengths = <<4, 6, 8>>
    /\ kpis.queue_analytics.average_queue_length = 600

\* While the worker of camera c is in a run of failed reads, no step changes
\* the entry of its role.
StaleWhileFailing ==
    \A c \in CameraNames :
        w_fails'[c] > 0 => detection_data'[RoleOf(c)] = detection_data[RoleOf(c)]

\* A cycle whose read and processing both succeed replaces the entry of the
\* role by the snapshot of that frame and leaves the other roles alone.
ReplacedOnSuccess ==
    \A c \in CameraNames :
        (w_pc[c] = "process" /\ w_pc'[c] = "while" /\ npub' = npub + 1)
            => /\ \E boxes \in InferenceResults :
                    detection_data'[RoleOf(c)] = SnapshotOf(c, boxes, now)
               /\ \A r \in Roles \ {RoleOf(c)} : detection_data'[r] = detection_data[r]

\* A step of one worker changes neither the position nor the failure count
\* of another.
WorkersIndependent ==
    \A c, d \in CameraNames :
        (c # d /\ w_pc'[c] # w_pc[c])
            => w_pc'[d] = w_pc[d] /\ w_fails'[d] = w_fails[d]

\* A failed read sends the worker back to the loop test, and no worker has
\* left its loop while running is true.
RetriesWhileRunning ==
    /\ \A c \in CameraNames : cm_running => w_pc[c] \notin {"done", "blocked"}
    /\ \A c \in CameraNames : w_fails[c] > 0 => w_pc[c] \in {"while", "read"}

\* C8: if a worker's frame read fails on k consecutive cycles and then
\* succeeds, the entry of its role is unchanged during the failing cycles and
\* replaced on the first successful cycle; the loop keeps running throughout,
\* and the other workers go on publishing their roles.
C8_StaleThenReplaced ==
    /\ []RetriesWhileRunning
    /\ [][StaleWhileFailing /\ ReplacedOnSuccess /\ WorkersIndependent]_vars

\* A worker has published the frame it read after three failed reads, and
\* another worker has published too.
C8_Witness ==
    \E c, d \in CameraNames :
        /\ c # d
        /\ w_recovered[c] = 3
        /\ w_pc[c] = "while"
        /\ detection_data[RoleOf(c)] # EmptyList
        /\ detection_data[RoleOf(d)] # EmptyList

\* The step on which a statement of the loop body raises does nothing but
\* enter the handler of the loop, and the handler does nothing but sleep and
\* return to the loop test: the rest of the tick is skipped.
CaughtAndSkipped ==
    (agg_pc' = "except" \/ agg_pc = "except")
        => /\ agg_pc = "except" => agg_pc' = "while"
           /\ UNCHANGED <<kp_running, kpis, historical_data, kpi_records, last_save_time>>

\* With running true the loop test starts the next tick.
NextTickStarts ==
    (agg_pc = "while" /\ agg_pc' # "while" /\ kp_running) => agg_pc' = "pk_get"

\* C9: an error that a step of a tick raises into the loop is caught there,
\* the rest of the tick is skipped, and the loop stays running and goes on to
\* a later tick; no exception ends the loop while running is true.
C9_LoopSurvivesErrors ==
    /\ [](kp_running => agg_pc # "done")
    /\ [][CaughtAndSkipped /\ NextTickStarts]_vars

\* A tick is under way after the handler of the loop caught an error.
C9_Witness ==
    /\ agg_caught
    /\ kp_running
    /\ agg_pc = "pk_gate"

\* stop_system has been called.
StopSystemCalled ==
    sup_pc \in {"sm_release", "sm_join", "stop_processing", "join_threads", "stopped",
                "stop_raised"}

\* stop_processing has returned.
StopProcessingReturned == sup_pc \in {"join_threads", "stopped"}

\* C5: however a stop_processing call interleaves with the thread that runs
\* start_processing (a call that comes before the first statement of that
\* thread included), the aggregator loop observes the stop and exits: once
\* stop_processing has returned, the loop test finds running false, so that
\* no tick beyond the one under way is started and the loop does not go on
\* ticking for ever.
C5_LoopTestSeesStop ==
    (StopProcessingReturned /\ agg_pc = "while") => ~kp_running

C7_StopSequenceCompletes ==
    sup_pc # "stop_raised"

\* C11: whenever update_operational_kpis runs with current_staff_count > 0,
\* service_efficiency afterwards equals average_queue_length divided by
\* current_staff_count (to the two decimals it is kept in), for every value
\* of average_queue_length, 0 included.
C11_EfficiencyIsQuotient ==
    [][(/\ agg_pc = "pk_operational"
        /\ agg_pc' = "pk_alerts"
        /\ kpis.staff_metrics.current_staff_count > 0)
       => kpis'.operational_kpis.service_efficiency
             \in RoundDiv(kpis.queue_analytics.average_queue_length,
                          kpis.staff_metrics.current_staff_count)]_vars

\* The step on which check_and_generate_alerts evaluates its rules and
\* extends the stored list.
AlertCycle == agg_pc = "pk_alerts" /\ agg_pc' = "pk_alerts_trim"

\* What that step appended to the stored list.
AlertsAppended ==
    SubSeq(kpis'.operational_kpis.alerts,
           Len(kpis.operational_kpis.alerts) + 1, Len(kpis'.operational_kpis.alerts))

OfType(alerts, type) == SelectSeq(alerts, LAMBDA a : a.type = type)

QueueRuleHolds ==
    kpis.queue_analytics.current_queue_length
        > analytics_config.alert_thresholds.max_queue_length

StaffRuleHolds ==
    kpis.staff_metrics.current_staff_count
        < analytics_config.alert_thresholds.min_staff_count

\* The cycle leaves the alerts stored before it in place, and the cut that
\* follows keeps what the cycle appended.
AlertsOnlyAppended ==
    /\ AlertCycle =>
          SubSeq(kpis'.operational_kpis.alerts, 1, Len(kpis.operational_kpis.alerts))
              = kpis.operational_kpis.alerts
    /\ (agg_pc = "pk_alerts_trim" /\ agg_pc' # agg_pc) =>
          LastN(kpis'.operational_kpis.alerts, 2) = LastN(kpis.operational_kpis.alerts, 2)

\* C12: on every evaluation cycle in which current_queue_length is strictly
\* greater than the max_queue_length threshold, check_and_generate_alerts
\* appends exactly one queue alert, of severity high; it does so again on each
\* successive cycle while the condition lasts, whatever the list already
\* holds; and it appends no queue alert on a cycle where the condition does
\* not hold.
C12_QueueAlertEachCycle ==
    [][/\ AlertsOnlyAppended
       /\ AlertCycle =>
             LET queue_alerts == OfType(AlertsAppended, "queue_alert")
             IN IF QueueRuleHolds
                THEN /\ Len(queue_alerts) = 1
                     /\ queue_alerts[1].severity = "high"
                     /\ queue_alerts[1].timestamp = agg_current_time
                ELSE queue_alerts = <<>>]_vars

\* The queue alert has just been appended on a second cycle in a row: the
\* list holds the one of the cycle before and the one of this cycle.
C12_Witness ==
    /\ agg_pc = "pk_alerts_trim"
    /\ QueueRuleHolds
    /\ \E i, j \in DOMAIN kpis.operational_kpis.alerts :
          /\ i < j
          /\ kpis.operational_kpis.alerts[i].type = "queue_alert"
          /\ kpis.operational_kpis.alerts[j].type = "queue_alert"
          /\ kpis.operational_kpis.alerts[i].timestamp + 1
                = kpis.operational_kpis.alerts[j].timestamp
          /\ kpis.operational_kpis.alerts[j].timestamp = agg_current_time

\* C13: the two alert rules are independent: on each cycle a staff alert of
\* severity medium is appended iff current_staff_count is below
\* min_staff_count, whether the queue rule fired or not; when both conditions
\* hold exactly two alerts are appended, the queue alert before the staff
\* alert.
C13_RulesIndependent ==
    [][AlertCycle =>
         LET staff_alerts == OfType(AlertsAppended, "staff_alert")
         IN /\ IF StaffRuleHolds
               THEN /\ Len(staff_alerts) = 1
                    /\ staff_alerts[1].severity = "medium"
               ELSE staff_alerts = <<>>
            /\ (QueueRuleHolds /\ StaffRuleHolds) =>
                  /\ Len(AlertsAppended) = 2
                  /\ AlertsAppended[1].type = "queue_alert"
                  /\ AlertsAppended[2].type = "staff_alert"]_vars

\* Both rules have just fired in one cycle: the list ends with the queue
\* alert and then the staff alert of this cycle.
C13_Witness ==
    /\ agg_pc = "pk_alerts_trim"
    /\ QueueRuleHolds /\ StaffRuleHolds
    /\ Len(kpis.operational_kpis.alerts) >= 2
    /\ LET n == Len(kpis.operational_kpis.alerts)
       IN /\ kpis.operational_kpis.alerts[n - 1].type = "queue_alert"
          /\ kpis.operational_kpis.alerts[n].type = "staff_alert"
          /\ kpis.operational_kpis.alerts[n - 1].timestamp = agg_current_time
          /\ kpis.operational_kpis.alerts[n].timestamp = agg_current_time

\* The rectangle [x, x + width] x [y, y + height] of a zone, bounds included,
\* holds the point whose doubled coordinates are p2.
RectangleHolds(zone, p2) ==
    /\ 2 * zone.x <= p2[1] /\ p2[1] <= 2 * zone.x + 2 * zone.width
    /\ 2 * zone.y <= p2[2] /\ p2[2] <= 2 * zone.y + 2 * zone.height

\* The index of the first declared zone whose rectangle holds the point; 0
\* when no zone holds it.
FirstHolding(zones, p2) ==
    IF \E i \in DOMAIN zones : RectangleHolds(zones[i], p2)
    THEN CHOOSE i \in DOMAIN zones :
            /\ RectangleHolds(zones[i], p2)
            /\ \A j \in 1..(i - 1) : ~RectangleHolds(zones[j], p2)
    ELSE 0

\* The person boxes of the last queue frame that some zone holds, in order.
PersonsInSomeZone ==
    SelectSeq(queue_boxes,
              LAMBDA b : IsPerson(b) /\ FirstHolding(queue_zones, Center2(b)) # 0)

\* C14: for every ordered list of zones and every centre point, the queue
\* worker gives a person detection the name of the first zone in declaration
\* order whose rectangle, bounds included, holds the point, and classifies
\* (and counts) nothing when no zone holds it or the list is empty; with A =
\* (0,0,10,10) declared before B = (0,0,20,20) the point (5,5) is classified A.
C14_FirstDeclaredZoneWins ==
    detection_data["queue"] # EmptyList =>
        LET detections == detection_data["queue"].detections
        IN /\ Len(detections) = Len(PersonsInSomeZone)
           /\ detection_data["queue"].queue_length = Len(PersonsInSomeZone)
           /\ \A k \in DOMAIN detections :
                 /\ detections[k].bbox = PersonsInSomeZone[k].xyxy
                 /\ detections[k].zone
                        = queue_zones[FirstHolding(queue_zones, detections[k].center)].name
           /\ (/\ Len(queue_zones) = 2
               /\ queue_zones[1] = [name |-> "A", x |-> 0, y |-> 0, width |-> 10, height |-> 10]
               /\ queue_zones[2] = [name |-> "B", x |-> 0, y |-> 0, width |-> 20, height |-> 20])
              => \A k \in DOMAIN detections :
                    detections[k].center = <<10, 10>> => detections[k].zone = "A"

\* Zones A and B declared in this order, and the person at (5,5) classified A.
C14_Witness ==
    /\ queue_zones = << [name |-> "A", x |-> 0, y |-> 0, width |-> 10, height |-> 10],
                        [name |-> "B", x |-> 0, y |-> 0, width |-> 20, height |-> 20] >>
    /\ detection_data["queue"] # EmptyList
    /\ \E k \in DOMAIN detection_data["queue"].detections :
          /\ detection_data["queue"].detections[k].center = <<10, 10>>
          /\ detection_data["queue"].detections[k].zone = "A"

\* C15: the mapping a get_detection_data call returns holds an entry for a
\* role only if a snapshot of that role has been published; a role never
\* published is absent from it, not present with an empty default.  Here for the
\* mapping process_kpis has just received.
C15_UnpublishedRolesAbsent ==
    agg_pc = "pk_gate" =>
        \A r \in DOMAIN agg_detection_data : agg_detection_data[r] # EmptyList

\* The current value and the history rings the aggregator keeps for a role.
RoleKpis(r) ==
    CASE r = "queue"   -> <<kpis.queue_analytics.current_queue_length,
                            kpis.queue_analytics.queue_history,
                            historical_data.queue_lengths>>
      [] r = "kitchen" -> <<kpis.staff_metrics.current_staff_count,
                            historical_data.staff_counts>>
      [] r = "parking" -> <<kpis.vehicle_metrics.current_vehicles,
                            historical_data.vehicle_counts>>
      [] r = "gate"    -> <<kpis.customer_flow.current_occupancy,
                            historical_data.entries_per_hour>>

\* No step changes what is kept for a role that has not been published.
UnpublishedRoleUntouched ==
    \A r \in Roles : detection_data[r] = EmptyList => RoleKpis(r)' = RoleKpis(r)

\* The update of a role that was handed a snapshot stores the count of the
\* snapshot, 0 included, and appends it to the history of the role.
SnapshotCountStored ==
    /\ (agg_pc = "pk_queue" /\ agg_pc' # agg_pc /\ agg_detection_data["queue"] # EmptyList)
          => kpis'.queue_analytics.current_queue_length
                = agg_detection_data["queue"].queue_length
    /\ (agg_pc = "pk_queue_history" /\ agg_pc' # agg_pc)
          => kpis'.queue_analytics.queue_history
                = LastN(Append(kpis.queue_analytics.queue_history,
                               [length |-> agg_detection_data["queue"].queue_length,
                                timestamp |-> agg_current_time]), QueueHistoryMaxLen)
    /\ (agg_pc = "pk_queue_lengths" /\ agg_pc' # agg_pc)
          => historical_data'.queue_lengths
                = LastN(Append(historical_data.queue_lengths,
                               [length |-> agg_detection_data["queue"].queue_length,
                                timestamp |-> agg_current_time]), HistoricalMaxLen)
    /\ (agg_pc = "pk_staff" /\ agg_pc' # agg_pc /\ agg_detection_data["kitchen"] # EmptyList)
          => /\ kpis'.staff_metrics.current_staff_count
                    = agg_detection_data["kitchen"].staff_count
             /\ historical_data'.staff_counts
                    = LastN(Append(historical_data.staff_counts,
                                   [count |-> agg_detection_data["kitchen"].staff_count,
                                    timestamp |-> agg_current_time]), HistoricalMaxLen)

\* C16: the aggregator tells "no snapshot yet" from "snapshot with zero
\* count": for a role that has never been published a tick leaves the current
\* value and the history ring of the role unchanged, whereas a published
\* snapshot whose count is 0 sets the current value of the role to 0 and
\* appends a 0 sample to its history.
C16_NoSnapshotIsNotZero ==
    [][UnpublishedRoleUntouched /\ SnapshotCountStored]_vars

\* A tick has taken a queue snapshot that counts nobody: the current length
\* went from 1 to 0 and a 0 sample follows the 1 in the ring, while the
\* kitchen, never published, still has no sample.
C16_Witness ==
    /\ agg_pc = "pk_staff"
    /\ agg_detection_data["queue"] # EmptyList
    /\ agg_detection_data["kitchen"] = EmptyList
    /\ detection_data["kitchen"] = EmptyList
    /\ kpis.queue_analytics.current_queue_length = 0
    /\ RingLengths = <<1, 0>>
    /\ FedLengths = <<1, 0>>
    /\ historical_data.staff_counts = <<>>

\* C17: the mapping one get_detection_data call returns is a copy: whatever is
\* published after the call returns, the caller reads through the mapping it
\* holds the same role-to-snapshot mapping and the same snapshot contents as
\* when the call returned.
C17_HeldMappingNeverChanges ==
    held.map # "none" =>
        ReadThrough(held, snapshot_objects, store_refs) = reader_copy

\* A caller holds a mapping with a snapshot of a role that has since been
\* published again, with other contents.
C17_Witness ==
    /\ held.map # "none"
    /\ \E r \in Roles :
          /\ held.refs[r] # 0
          /\ store_refs[r] # held.refs[r]
          /\ snapshot_objects[store_refs[r]] # snapshot_objects[held.refs[r]]

\* The role a snapshot dictionary was made for, by its count field.
RoleOfSnapshot(snapshot) ==
    CASE "vehicle_count" \in DOMAIN snapshot -> "parking"
      [] "person_count" \in DOMAIN snapshot  -> "gate"
      [] "queue_length" \in DOMAIN snapshot  -> "queue"
      [] "staff_count" \in DOMAIN snapshot   -> "kitchen"

\* The snapshot the most recent publish of a role wrote; the empty list of
\* __init__ when the role has not been published.
MostRecentPublish(r) ==
    LET of_role == SelectSeq(snapshot_objects, LAMBDA o : RoleOfSnapshot(o) = r)
    IN IF of_role = <<>> THEN EmptyList ELSE of_role[Len(of_role)]

\* process_kpis receives, for every role, what the most recent publish wrote.
TickReadsMostRecent ==
    (agg_pc = "pk_get" /\ agg_pc' = "pk_gate")
        => \A r \in Roles : agg_detection_data'[r] = MostRecentPublish(r)

\* A publish changes nothing the aggregator keeps, and a tick adds to the
\* queue history the one snapshot it read and nothing else.
NoBacklog ==
    /\ snapshot_objects' # snapshot_objects => UNCHANGED <<kpis, historical_data>>
    /\ historical_data'.queue_lengths # historical_data.queue_lengths
          => historical_data'.queue_lengths
                = LastN(Append(historical_data.queue_lengths,
                               [length |-> agg_detection_data["queue"].queue_length,
                                timestamp |-> agg_current_time]), HistoricalMaxLen)

\* C18: publish overwrites and never merges: at each aggregator tick the
\* snapshot read for a role is the one the most recent publish of that role
\* wrote, and snapshots published and superseded between two ticks have no
\* effect on the KPI state (no backlog is kept: a tick adds one sample).
C18_LastSnapshotWins ==
    /\ [](Len(historical_data.queue_lengths) <= agg_ticks)
    /\ [][TickReadsMostRecent /\ NoBacklog]_vars

\* The queue worker has published 2 and then 4 people before the first tick
\* read the store: the tick has recorded 4 alone.
C18_Witness ==
    /\ Len(snapshot_objects) = 2
    /\ snapshot_objects[1].queue_length = 2
    /\ snapshot_objects[2].queue_length = 4
    /\ agg_ticks = 1
    /\ agg_pc = "pk_staff"
    /\ FedLengths = <<4>>
    /\ RingLengths = <<4>>
    /\ kpis.queue_analytics.max_queue_length = 4

\* C19: across any sequence of ticks, stops and restarts within one process
\* lifetime, max_queue_length never decreases.
C19_MaxNeverDecreases ==
    [][kpis'.queue_analytics.max_queue_length
          >= kpis.queue_analytics.max_queue_length]_vars

\* After a stop and a restart a tick has taken a queue shorter than the
\* maximum of the first run, and the maximum stands.
C19_Witness ==
    /\ agg_starts = 2
    /\ agg_pc = "pk_queue_average"
    /\ kpis.queue_analytics.current_queue_length = 0
    /\ kpis.queue_analytics.max_queue_length = 1

\* The thread of start_processing is not in its loop: it has left it, or a
\* new one has not yet reached it.
LoopNotEntered == agg_pc \in {"done", "start"}

\* C20: stop_processing followed by a new start_processing leaves the whole
\* KPI state (counters, histograms, history rings, alert list) exactly as it
\* was at the stop: neither call changes any of it, and nothing changes it
\* from the moment the stopped loop is left until the new loop is entered.
C20_RestartKeepsKpiState ==
    [][(kp_running' # kp_running \/ LoopNotEntered)
          => UNCHANGED <<kpis, historical_data>>]_vars

\* A second start_processing has entered its loop with the counters, rings
\* and alerts the first run left.
C20_Witness ==
    /\ agg_starts = 2
    /\ agg_pc = "while"
    /\ kp_running
    /\ kpis.queue_analytics.max_queue_length = 1
    /\ kpis.queue_analytics.queue_history # <<>>
    /\ kpis.operational_kpis.alerts # <<>>
    /\ historical_data.queue_lengths # <<>>

\* The flush step of a tick, taken when the save interval has elapsed.
FlushStep ==
    /\ agg_pc = "save_check"
    /\ agg_pc' # agg_pc
    /\ agg_time - last_save_time >= analytics_config.save_interval

\* C21: when the persistence write fails during the flush step,
\* save_kpis_to_database returns normally (the tick goes on to its sleep, not
\* to the handler of the loop), the in-memory KPI state is what it was before
\* the flush, the write is not retried (the flush timer restarts as after a
\* successful write) and the loop stays running for its next tick.
C21_FailedFlushIsContained ==
    [][(FlushStep /\ kpi_records' = kpi_records)
          => /\ agg_pc' = "sleep"
             /\ UNCHANGED <<kpis, historical_data, kp_running>>
             /\ last_save_time' = agg_time]_vars

\* A tick is under way after a flush whose write failed: the flush timer has
\* restarted and the table is still empty.
C21_Witness ==
    /\ agg_pc = "pk_gate"
    /\ kp_running
    /\ kpi_records = <<>>
    /\ last_save_time > 0
    /\ agg_time > last_save_time

\* ------------------------------------------------------------ a repeated stop
\* The started system of one queue camera, which sees two people in zone A,
\* stopped and then stopped again.
StopFeed == {[i \in 1..2 |-> Box(0, 50, 5, 5)]}

NextStopTwice ==
    \/ StopSystem
    \/ StopSystemAgain
    \/ StopMonitoringRelease
    \/ StopMonitoringJoin
    \/ StopProcessing
    \/ StopSystemJoin
    \/ \E c \in CameraNames : WorkerWhile(c)
    \/ \E c \in CameraNames : WorkerReadOk(c)
    \/ \E c \in CameraNames : npub < MaxKpiPublish /\ WorkerProcess(c, StopFeed)
    \/ (agg_ticks < MaxLifeTicks \/ ~kp_running) /\ AggWhile
    \/ AggProcessKpis
    \/ AggSaveCheck({"ok"})
    \/ AggSleep

SpecStopTwice == InitRing /\ [][NextStopTwice]_vars

\* Every loop has ended and every running flag is down.
PipelineStopped ==
    /\ ~sys_running /\ ~cm_running /\ ~kp_running
    /\ \A c \in CameraNames : w_pc[c] \in {"idle", "done"}
    /\ agg_pc = "done"
    /\ mon_pc = "done"

\* C22: once stop_system has returned and the pipeline is stopped, a further
\* stop_system (with the stop_monitoring and stop_processing it calls) raises
\* no error and leaves the running flags, the detection store and the KPI
\* state exactly as they were, at every one of its steps.
C22_StopIsIdempotent ==
    [][(sup_stops >= 1 /\ PipelineStopped)
          => /\ sup_pc' # "stop_raised"
             /\ PipelineStopped'
             /\ UNCHANGED <<sys_running, cm_running, kp_running>>
             /\ UNCHANGED <<detection_data, kpis, historical_data, kpi_records>>]_vars

C22_Witness ==
    /\ sup_stops = 2
    /\ sup_pc = "stopped"
    /\ PipelineStopped
    /\ detection_data["queue"] # EmptyList
    /\ kpis # InitialKpis

\* ------------------------------------------------- cameras that do not open
\* The system from its construction, for every outcome of opening the primary
\* and the backup address of every camera; the workers see empty frames.
InitOpen ==
    \E primary \in SUBSET CameraNames : \E backup \in SUBSET CameraNames :
        /\ ConfiguredWith(camera_config["queue_camera"].queue_zones)
        /\ InitCameraManager(InitializeCameras(primary, backup))
        /\ InitKpiProcessor
        /\ InitSupervisor

NextOpen ==
    \/ StartSystemCamera
    \/ StartSystemKpi
    \/ MonStart
    \/ MonSpawnWorker
    \/ MonRecordThread
    \/ \E c \in CameraNames : WorkerWhile(c)
    \/ \E c \in CameraNames : WorkerReadOk(c)
    \/ \E c \in CameraNames : npub < MaxPublish /\ WorkerProcess(c, EmptyFrames)

SpecOpen == InitOpen /\ [][NextOpen]_vars

\* The elements of a sequence.
Range(seq) == {seq[i] : i \in 1..Len(seq)}

\* C23: a camera that opened on neither address never has a worker, neither
\* running nor recorded, and its role never holds a snapshot; once
\* start_monitoring has gone through the cameras, every camera that opened has
\* exactly one worker of its own, which has entered its loop.
C23_UnopenedCameraHasNoWorker ==
    /\ \A c \in CameraNames :
          cameras[c] = "absent"
             => /\ w_pc[c] = "idle"
                /\ c \notin Range(camera_threads)
                /\ detection_data[RoleOf(c)] = EmptyList
    /\ mon_pc = "done"
          => /\ camera_threads = OpenedOrder
             /\ \A c \in CameraNames : cameras[c] = "open" => w_pc[c] # "idle"

C23_Witness ==
    /\ mon_pc = "done"
    /\ \E c \in CameraNames : cameras[c] = "absent"
    /\ \E c, d \in CameraNames :
          /\ c # d
          /\ cameras[c] = "open" /\ cameras[d] = "open"
          /\ detection_data[RoleOf(c)] # EmptyList
          /\ detection_data[RoleOf(d)] # EmptyList

\* ----------------------------------------------------- the KPI snapshot handed out
\* The aggregator loop over the queue worker and a caller of get_current_kpis.
NextSnapshot ==
    \/ \E c \in CameraNames : WorkerWhile(c)
    \/ \E c \in CameraNames : WorkerReadOk(c)
    \/ \E c \in CameraNames : npub < MaxPublish /\ WorkerProcess(c, StopFeed)
    \/ agg_ticks < MaxLifeTicks /\ AggWhile
    \/ AggProcessKpis
    \/ AggSaveCheck({"ok"})
    \/ AggSleep
    \/ GetCurrentKpis

SpecSnapshot == InitRing /\ [][NextSnapshot]_vars

\* C24: what a caller reads through the mapping get_current_kpis returned is,
\* at every nesting level, what the KPI state held when the call returned,
\* whatever the aggregator has written since.
C24_ReturnedKpisNeverChange ==
    kpi_held.taken => ReadThroughKpis(kpi_held, kpis) = kpi_held.at_call

\* ------------------------------------------------ the lock of the database
\* Three threads that call the writing and the reading methods of the
\* DatabaseManager in any order, with operations that complete or raise.
InitDb ==
    /\ ConfiguredWith(camera_config["queue_camera"].queue_zones)
    /\ InitCameraManager({})
    /\ InitKpiProcessor
    /\ InitSupervisor

NextDb ==
    \/ \E t \in DbClients : \E method \in DbWrites \cup DbReads : DbCall(t, method)
    \/ \E t \in DbClients : DbAcquire(t)
    \/ \E t \in DbClients : DbOperate(t, {"ok", "raised"})
    \/ \E t \in DbClients : DbRelease(t)

SpecDb == InitDb /\ [][NextDb]_vars

\* The threads inside the locked section.
InLockedSection == {t \in DbClients : db_pc[t] \in {"inside", "leaving"}}

\* At most one thread is inside the locked section, and it holds the lock.
Serialized ==
    /\ Cardinality(InLockedSection) <= 1
    /\ \A t \in InLockedSection : db_lock = t

\* A write call of thread t has returned.
WriteReturned(t) == db_pc[t] = "idle" /\ db_call[t] \in DbWrites

\* C25 as stated: writers are serialized by the lock, and every write call
\* that returns has appended exactly one record.
C25_EveryReturnedWriteAppended ==
    /\ Serialized
    /\ \A t \in DbClients : WriteReturned(t) => db_added[t] = 1

\* C25, amended: writers are serialized by the lock, and every write call
\* that returns has appended exactly one record when its database operation
\* completed and none when the operation raised.
C25_WritesSerializedNoneLost ==
    /\ Serialized
    /\ \A t \in DbClients :
          WriteReturned(t) => db_added[t] = IF db_result[t] = "ok" THEN 1 ELSE 0
    /\ Len(kpi_records) + Len(customer_events) >=
          Cardinality({t \in DbClients : WriteReturned(t) /\ db_result[t] = "ok"})

C25_Witness ==
    /\ \E t \in DbClients : db_pc[t] = "leaving" /\ db_call[t] \in DbWrites /\ db_result[t] = "ok"
    /\ \E t \in DbClients : db_pc[t] = "acquire" /\ db_call[t] \in DbWrites
    /\ \E t \in DbClients : WriteReturned(t) /\ db_added[t] = 1
    /\ Len(kpi_records) + Len(customer_events) = 2

\* The same threads under fair scheduling: a thread inside the locked section
\* goes on, and a thread that waits for the lock is not passed over forever.
\* Nothing obliges a thread to call a method; the writers write summaries.
NextDbFair ==
    \/ \E t \in DbClients : \E method \in {"save_kpi_record"} \cup DbReads : DbCall(t, method)
    \/ \E t \in DbClients : DbAcquire(t)
    \/ \E t \in DbClients : DbOperate(t, {"ok", "raised"})
    \/ \E t \in DbClients : DbRelease(t)

SpecDbFair ==
    /\ InitDb
    /\ [][NextDbFair]_vars
    /\ \A t \in DbClients : WF_vars(DbOperate(t, {"ok", "raised"}) \/ DbRelease(t))
    /\ \A t \in DbClients : SF_vars(DbAcquire(t))

\* C26: a read query that waits for the lock eventually holds it and
\* returns, whatever the writers do and whether or not their operations raise.
C26_ReaderEventuallyReturns ==
    \A t \in DbClients :
        (db_pc[t] = "acquire" /\ db_call[t] \in DbReads)
            ~> (db_pc[t] = "idle" /\ db_call[t] \in DbReads /\ db_result[t] # "none")

C26_Witness ==
    \E t, w \in DbClients :
        /\ db_pc[t] = "acquire" /\ db_call[t] \in DbReads
        /\ db_pc[w] = "leaving" /\ db_call[w] \in DbWrites /\ db_result[w] = "raised"
        /\ db_lock = w

\* ------------------------------------------------------------------ retention
\* Ages in days of the rows the tables hold when cleanup_old_data is called,
\* and the horizons it is called with; the clock stands at day 0.
RowAges == {10, 60, 100}
RetentionChoices == {7, 30, 90, 120}

\* The tables of at most MaxRows rows of those ages, oldest first.
EventTables ==
    {rows \in SeqsUpTo([event_type : {"entry"}, timestamp : {0 - a : a \in RowAges}], MaxRows) :
        \A i \in 1..(Len(rows) - 1) : rows[i].timestamp <= rows[i + 1].timestamp}
AlertTables ==
    {rows \in SeqsUpTo([alert_type : {"queue_length"}, timestamp : {0 - a : a \in RowAges}], MaxRows) :
        \A i \in 1..(Len(rows) - 1) : rows[i].timestamp <= rows[i + 1].timestamp}

InitCleanup ==
    /\ ConfiguredWith(camera_config["queue_camera"].queue_zones)
    /\ InitCameraManager({})
    /\ InitSupervisor
    /\ kp_running = FALSE
    /\ kpis = InitialKpis
    /\ historical_data = InitialHistoricalData
    /\ agg_pc = "idle"
    /\ agg_detection_data = [r \in Roles |-> EmptyList]
    /\ agg_current_time = 0
    /\ agg_time = 0
    /\ last_save_time = 0
    /\ agg_ticks = 0
    /\ agg_caught = FALSE
    /\ agg_starts = 0
    /\ kpi_records = <<>>
    /\ customer_events \in EventTables
    /\ alerts_table \in AlertTables
    /\ db_lock = "free"
    /\ db_pc = [t \in DbClients |-> "idle"]
    /\ db_call = [t \in DbClients |-> "none"]
    /\ db_result = [t \in DbClients |-> "none"]
    /\ db_added = [t \in DbClients |-> 0]

NextCleanup ==
    \E t \in DbClients : \E retention_days \in RetentionChoices : CleanupOldData(t, retention_days)

SpecCleanup == InitCleanup /\ [][NextCleanup]_vars

\* The ages of the rows of a table.
AgesIn(rows) == {0 - rows[i].timestamp : i \in 1..Len(rows)}

\* C27: no cleanup deletes an alert while it keeps an event record of the
\* same age, whatever horizon it was called with.
C27_AlertsOutliveEvents ==
    [][\A a \in AgesIn(alerts_table) \ AgesIn(alerts_table') :
           a \notin AgesIn(customer_events')]_vars

\* ------------------------------------------------------------- the flush timer
\* The reading of the clock when start_processing is entered: one interval
\* before 0, so that the clock has room for two flushes.
FlushEpoch == 0 - 1

\* The aggregator loop from its entry at FlushEpoch, over the queue worker,
\* with database writes that complete or fail; it ticks until a flush at the
\* last reading of the clock.
InitFlush ==
    /\ ConfiguredWith(camera_config["queue_camera"].queue_zones)
    /\ SystemStartedAt({"queue_camera"}, FlushEpoch)
    /\ detection_data = [r \in Roles |-> EmptyList]
    /\ AggregatorStartedAt("while", TRUE, FlushEpoch)

NextFlush ==
    \/ \E c \in CameraNames : WorkerWhile(c)
    \/ \E c \in CameraNames : WorkerReadOk(c)
    \/ \E c \in CameraNames : npub < MaxKpiPublish /\ WorkerProcess(c, StopFeed)
    \/ last_save_time < MaxTime /\ AggWhile
    \/ AggProcessKpis
    \/ AggSaveCheck({"ok", "fail"})
    \/ AggSleep

SpecFlush == InitFlush /\ [][NextFlush]_vars

\* The tick stands at the flush test and the interval has elapsed.
FlushDue ==
    /\ agg_pc = "save_check"
    /\ agg_time - last_save_time >= analytics_config.save_interval

\* The records this step writes.
RecordsWritten == Len(kpi_records') - Len(kpi_records)

\* Records are only appended, and only by the flush test of a tick.
OnlyTheFlushWrites ==
    /\ RecordsWritten \in {0, 1}
    /\ SubSeq(kpi_records', 1, Len(kpi_records)) = kpi_records
    /\ agg_pc # "save_check" => UNCHANGED <<kpi_records, last_save_time>>

\* C28 as stated: a tick writes exactly one record iff at least save_interval
\* has elapsed since the previous flush or the start, and none otherwise.
C28_OneRecordIffIntervalElapsed ==
    [][/\ OnlyTheFlushWrites
       /\ (agg_pc = "save_check" /\ agg_pc' # agg_pc)
             => (RecordsWritten = 1 <=> FlushDue)]_vars

\* C28, amended: a tick flushes iff at least save_interval has elapsed between
\* the reading of the clock it began with and that of the tick of the previous
\* flush (or the start); a flush restarts the timer at the tick's reading and
\* writes exactly one record unless the write fails; a tick that does not
\* flush writes nothing and leaves the timer; no tick writes more than one.
C28_FlushIffIntervalElapsed ==
    [][/\ OnlyTheFlushWrites
       /\ (agg_pc = "save_check" /\ agg_pc' # agg_pc)
             => IF FlushDue
                THEN /\ last_save_time' = agg_time
                     /\ last_save_time' - last_save_time >= analytics_config.save_interval
                     /\ RecordsWritten = 1
                           => kpi_records'[Len(kpi_records')] = KpiRecord(kpis, now)
                ELSE UNCHANGED <<kpi_records, last_save_time>>]_vars

C28_Witness ==
    /\ Len(kpi_records) = 2
    /\ last_save_time = MaxTime
    /\ agg_pc = "sleep"
    /\ kpi_records[2].timestamp - kpi_records[1].timestamp >= analytics_config.save_interval

\* ------------------------------------------------------- workers side by side
\* The worker of camera c takes a step: it moves, or counts a failed read.
StepOfWorker(c) == w_pc'[c] # w_pc[c] \/ w_fails'[c] # w_fails[c]

\* The step leaves the other roles, the other workers and what all workers
\* share as they were.
OthersUnaffected(c) ==
    /\ \A r \in Roles \ {RoleOf(c)} : detection_data'[r] = detection_data[r]
    /\ \A d \in CameraNames \ {c} :
          /\ w_pc'[d] = w_pc[d]
          /\ w_fails'[d] = w_fails[d]
          /\ w_recovered'[d] = w_recovered[d]
    /\ UNCHANGED <<cameras, cm_running, camera_threads>>

\* The step is a failed read, or an exception inside the processing of the
\* frame: the worker returns to its loop test without a publish.
FailingStep(c) ==
    /\ w_pc[c] \in {"read", "process"}
    /\ w_pc'[c] = "while"
    /\ npub' = npub

\* C29: every step of a worker, be it a publish, a failed read or an
\* exception inside its processing, changes at most the store entry of its own
\* role, and a failing step changes no entry at all; the snapshots of the
\* other roles and the loops of the other workers are as before the step.
C29_WorkerStepsAreLocal ==
    [][\A c \in CameraNames :
          StepOfWorker(c)
             => /\ OthersUnaffected(c)
                /\ FailingStep(c) => detection_data' = detection_data]_vars

C29_Witness ==
    \E c, d \in CameraNames :
        /\ c # d
        /\ w_fails[c] > 0
        /\ w_pc[c] = "read"
        /\ detection_data[RoleOf(c)] # EmptyList
        /\ detection_data[RoleOf(d)] # EmptyList
        /\ w_pc[d] = "process"

\* ------------------------------------------------------------------ peak hour
\* The aggregator loop over the gate worker and the queue worker, which see
\* nobody, across midnight.
InitPeak ==
    /\ ConfiguredWith(camera_config["queue_camera"].queue_zones)
    /\ SystemStarted({"gate_camera", "queue_camera"})
    /\ detection_data = [r \in Roles |-> EmptyList]
    /\ AggregatorAt("while", TRUE)

NextPeak ==
    \/ \E c \in CameraNames : WorkerWhile(c)
    \/ \E c \in CameraNames : WorkerReadOk(c)
    \/ \E c \in CameraNames : npub < MaxPublish /\ WorkerProcess(c, EmptyFrames)
    \/ agg_ticks < MaxTicks /\ AggWhile
    \/ AggProcessKpis
    \/ AggSaveCheck({"ok"})
    \/ AggSleep

SpecPeak == InitPeak /\ [][NextPeak]_vars

\* The hours of a histogram that hold its maximum value.
MaximalHours(hist) ==
    {hist[i].hour : i \in {j \in DOMAIN hist :
                              \A k \in DOMAIN hist : hist[k].entries <= hist[j].entries}}

\* The numerically lowest of them.
LowestMaximalHour(hist) ==
    CHOOSE h \in MaximalHours(hist) : \A g \in MaximalHours(hist) : h <= g

\* C30: every update of the customer-flow KPIs that finds the hourly
\* histogram non-empty leaves peak_hour at a key with the maximum value, the
\* numerically lowest one when several tie, in whatever order the hours were
\* first recorded.
C30_PeakHourIsLowestMaximum ==
    [][(/\ agg_pc = "pk_gate"
        /\ agg_pc' = "pk_parking"
        /\ Truthy(agg_detection_data["gate"])
        /\ kpis.customer_flow.hourly_entries # <<>>)
          => kpis'.customer_flow.peak_hour =
                LowestMaximalHour(kpis.customer_flow.hourly_entries)]_vars

\* ----------------------------------------------------------------- peak hours
\* The histograms update_operational_kpis is applied to: up to three hours in
\* any order of first recording, each with up to MaxEntries entries.
HistogramHours == {0, 12, 23}
Histograms ==
    {hist \in SeqsUpTo([hour : HistogramHours, entries : 0..MaxEntries], 3) :
        \A i, j \in DOMAIN hist : i # j => hist[i].hour # hist[j].hour}

\* The lists an earlier cycle may have left in peak_hours: hours of the
\* histogram, which never loses a key, in its order.
EarlierPeakHours(hist) ==
    {SelectSeq([i \in DOMAIN hist |-> hist[i].hour], LAMBDA h : h \in H) :
        H \in SUBSET {hist[i].hour : i \in DOMAIN hist}}

\* A tick about to call update_operational_kpis, for every histogram and
\* every list of an earlier cycle.
InitPeakHours ==
    /\ ConfiguredWith(camera_config["queue_camera"].queue_zones)
    /\ SystemStarted({"gate_camera"})
    /\ detection_data = [r \in Roles |-> EmptyList]
    /\ kp_running = TRUE
    /\ \E hist \in Histograms : \E earlier \in EarlierPeakHours(hist) :
          kpis = [InitialKpis EXCEPT !.customer_flow.hourly_entries = hist,
                                     !.operational_kpis.peak_hours = earlier]
    /\ historical_data = InitialHistoricalData
    /\ agg_pc = "pk_operational"
    /\ agg_detection_data = [r \in Roles |-> EmptyList]
    /\ agg_current_time = 0
    /\ agg_time = 0
    /\ last_save_time = 0
    /\ agg_ticks = 1
    /\ agg_caught = FALSE
    /\ agg_starts = 1
    /\ kpi_records = <<>>
    /\ InitDatabaseManager

NextPeakHours == AggOperational

SpecPeakHours == InitPeakHours /\ [][NextPeakHours]_vars

\* The hours whose count is strictly greater than 1.5 times the mean count.
QualifyingHours(hist) ==
    {hist[i].hour : i \in {j \in DOMAIN hist :
                              2 * Len(hist) * hist[j].entries > 3 * SumEntries(hist)}}

\* C31: after update_operational_kpis, peak_hours lists exactly the hours of
\* the current histogram whose count exceeds 1.5 times the mean of all
\* counts, each once; an hour an earlier cycle listed and that does not
\* qualify now is gone.
C31_PeakHoursRecomputed ==
    agg_pc = "pk_alerts"
        => LET peak_hours == kpis.operational_kpis.peak_hours
           IN /\ Range(peak_hours) = QualifyingHours(kpis.customer_flow.hourly_entries)
              /\ \A i, j \in DOMAIN peak_hours : i # j => peak_hours[i] # peak_hours[j]

C31_Witness ==
    /\ agg_pc = "pk_alerts"
    /\ Len(kpis.customer_flow.hourly_entries) = 3
    /\ kpis.customer_flow.hourly_entries[1] = [hour |-> 23, entries |-> 3]
    /\ kpis.customer_flow.hourly_entries[2].entries = 1
    /\ kpis.operational_kpis.peak_hours = <<23>>

\* ------------------------------------------------ the counts of one frame
\* A person inside A and B, a person inside B and C, a low-confidence person
\* and a car.
CountBoxes == {Box(0, 50, 5, 5), Box(0, 50, 15, 15), Box(0, 49, 5, 5), Box(2, 50, 5, 5)}

\* Frames of up to MaxBoxes + 1 boxes, so that a counted person and a filtered
\* box meet in one frame.
CountFrames == SeqsUpTo(CountBoxes, MaxBoxes + 1)

\* The queue worker over every list of zones, with the frame remembered.
NextQueueCount ==
    \/ \E c \in CameraNames : WorkerWhile(c)
    \/ \E c \in CameraNames : WorkerReadOk(c)
    \/ ProcessQueueCamera(CountFrames)

SpecQueueCount == InitZones /\ [][NextQueueCount]_vars

\* The positions in the last queue frame of the boxes of the person class with
\* a confidence at or above the person threshold whose centre lies in the
\* rectangle of at least one configured zone.
QualifyingInQueue ==
    {i \in DOMAIN queue_boxes :
        /\ queue_boxes[i].cls = 0
        /\ queue_boxes[i].conf >= model_config.person_detection.confidence_threshold
        /\ \E k \in DOMAIN queue_zones :
              RectangleHolds(queue_zones[k], Center2(queue_boxes[i]))}

\* C32: the queue_length of a queue snapshot is the number of detections of
\* the frame that are of the person class, have a confidence at or above the
\* person threshold, and whose centre lies in at least one queue zone; a
\* detection inside several overlapping zones is counted exactly once, and a
\* detection failing the class or confidence filter is never counted or listed.
C32_QueueLengthCountsEachPersonOnce ==
    detection_data["queue"] # EmptyList =>
        LET snapshot == detection_data["queue"]
        IN /\ snapshot.queue_length = Cardinality(QualifyingInQueue)
           /\ Len(snapshot.detections) = Cardinality(QualifyingInQueue)
           /\ \A k \in DOMAIN snapshot.detections :
                 /\ snapshot.detections[k].class_id = 0
                 /\ snapshot.detections[k].confidence
                        >= model_config.person_detection.confidence_threshold
                 /\ \E i \in QualifyingInQueue :
                       snapshot.detections[k].bbox = queue_boxes[i].xyxy

\* A person inside the overlapping zones A and B and a low-confidence person
\* in one frame: one is counted, once.
C32_Witness ==
    /\ Len(queue_zones) = 2
    /\ queue_zones[1].name = "A" /\ queue_zones[2].name = "B"
    /\ queue_boxes = <<Box(0, 50, 5, 5), Box(0, 49, 5, 5)>>
    /\ detection_data["queue"] # EmptyList
    /\ detection_data["queue"].queue_length = 1
    /\ Len(detection_data["queue"].detections) = 1

\* A person in the work area, one on the shared corner of both zones, one at
\* the wash station, one outside both, and a low-confidence person and a car
\* at the wash station.
KitchenBoxes ==
    {Box(0, 50, p[1], p[2]) : p \in Centres} \cup {Box(0, 49, 15, 15), Box(2, 50, 15, 15)}

KitchenFrames == SeqsUpTo(KitchenBoxes, MaxBoxes + 1)

\* process_kitchen_camera(frame) in the kitchen worker, with the boxes of the
\* frame remembered.
ProcessKitchenCamera(results) ==
    /\ w_pc["kitchen_camera"] = "process"
    /\ \E boxes \in results :
          /\ kitchen_boxes' = boxes
          /\ detection_data' = Publish(detection_data, "kitchen", KitchenSnapshot(boxes, now))
    /\ npub' = Min(npub + 1, MaxPublish)
    /\ w_pc' = [w_pc EXCEPT !["kitchen_camera"] = "while"]
    /\ UNCHANGED <<queue_zones, queue_boxes, dbVars, objectVars, camVars, w_fails, w_recovered,
                   reader_copy, now, kpVars, supVars>>

InitKitchen ==
    /\ ConfiguredWith(camera_config["queue_camera"].queue_zones)
    /\ SystemStarted({"kitchen_camera"})
    /\ detection_data = [r \in Roles |-> EmptyList]
    /\ AggregatorAt("start", FALSE)

NextKitchen ==
    \/ \E c \in CameraNames : WorkerWhile(c)
    \/ \E c \in CameraNames : WorkerReadOk(c)
    \/ ProcessKitchenCamera(KitchenFrames)
    \/ TimePasses

SpecKitchen == InitKitchen /\ [][NextKitchen]_vars

\* The positions in the last kitchen frame of the boxes of the person class
\* with a confidence at or above the person threshold whose centre lies in the
\* rectangle of the zone.
QualifyingInKitchen(zone) ==
    {i \in DOMAIN kitchen_boxes :
        /\ kitchen_boxes[i].cls = 0
        /\ kitchen_boxes[i].conf >= model_config.person_detection.confidence_threshold
        /\ RectangleHolds(zone, Center2(kitchen_boxes[i]))}

\* C33: the staff_count of a kitchen snapshot is the number of qualifying
\* person detections of the frame whose centre lies in the work_area zone, and
\* hand_washing_detected is true exactly when at least one qualifying person
\* detection has its centre in the wash_station zone: an OR across the
\* detections of the frame, false when there is none.
C33_StaffCountAndHandWashing ==
    detection_data["kitchen"] # EmptyList =>
        LET snapshot == detection_data["kitchen"]
            monitoring_zones == camera_config["kitchen_camera"].monitoring_zones
        IN /\ snapshot.staff_count
                = Cardinality(QualifyingInKitchen(monitoring_zones.work_area))
           /\ snapshot.hand_washing_detected
                = (QualifyingInKitchen(monitoring_zones.wash_station) # {})

\* A person at the wash station followed by a person in the work area: the
\* flag stays set and one member of staff is counted.
C33_Witness ==
    /\ kitchen_boxes = <<Box(0, 50, 15, 15), Box(0, 50, 5, 5)>>
    /\ detection_data["kitchen"] # EmptyList
    /\ detection_data["kitchen"].hand_washing_detected
    /\ detection_data["kitchen"].staff_count = 1

\* ------------------------------------------------- stop against the workers
\* The worker of camera c performs its camera.read(): it leaves the read with
\* a frame, with a failure, or hangs in it.
ReadsCapture(c) == w_pc[c] = "read" /\ w_pc'[c] # "read"

\* C34: no worker performs a frame read on a capture after stop_monitoring has
\* released it: for every interleaving of stop_monitoring with a running
\* worker loop, every camera.read() of the worker precedes the release of its
\* capture.
C34_NoReadAfterRelease ==
    [][\A c \in CameraNames : ReadsCapture(c) => cameras[c] # "released"]_vars

\* C35: for every interleaving of the thread that runs start_monitoring with
\* a stop_monitoring call, once stop_monitoring has set running to false no
\* worker thread is started and the running flag is never set back to true, so
\* that a stop issued right after start_system is not lost.
C35_StopIsNotLost ==
    [][StopSystemCalled =>
          /\ cm_running' => cm_running
          /\ \A c \in CameraNames : w_pc[c] = "idle" => w_pc'[c] = "idle"]_vars

\* ------------------------------------------------------- samples and ticks
\* C36: the aggregator samples the store once per tick regardless of
\* freshness: on every tick the queue role, once it has a snapshot, contributes
\* exactly one sample to its history rings, so that a snapshot the worker no
\* longer replaces is sampled again on every tick and the samples number the
\* ticks, not the publishes.  Ticks are one unit of time apart, so the samples
\* bear the times of consecutive ticks up to the one under way.
C36_OneSamplePerTick ==
    agg_pc = "pk_staff" =>
        LET samples == historical_data.queue_lengths
            n == Len(samples)
        IN IF agg_detection_data["queue"] = EmptyList
           THEN samples = <<>>
           ELSE /\ n >= 1
                /\ \A i \in DOMAIN samples :
                      samples[i].timestamp = agg_current_time - (n - i)
                /\ samples[n].length = agg_detection_data["queue"].queue_length
                /\ kpis.queue_analytics.queue_history = LastN(samples, QueueHistoryMaxLen)

\* One publish and three ticks after it: the one snapshot has been sampled
\* three times.
C36_Witness ==
    /\ agg_pc = "pk_staff"
    /\ Len(snapshot_objects) = 1
    /\ FedLengths = <<2, 2, 2>>
    /\ historical_data.queue_lengths[3].timestamp > snapshot_objects[1].timestamp + 1

\* -------------------------------------------------- alerts without snapshots
\* No kitchen snapshot has ever been published.
NoStaffSnapshot == detection_data["kitchen"] = EmptyList

\* process_kpis goes on past its test of the store whatever the store holds.
TickGoesOn == (agg_pc = "pk_get" /\ agg_pc' # "pk_get") => agg_pc' = "pk_gate"

\* The evaluation of a tick without a kitchen snapshot appends one staff alert.
StaffAlertAppended ==
    (AlertCycle /\ NoStaffSnapshot /\ analytics_config.alert_thresholds.min_staff_count > 0)
        => LET staff_alerts == OfType(AlertsAppended, "staff_alert")
           IN /\ Len(staff_alerts) = 1
              /\ staff_alerts[1].severity = "medium"
              /\ staff_alerts[1].timestamp = agg_current_time

\* C37: the alert rules are evaluated on every tick, also when no snapshot has
\* been published: while no staff snapshot has ever been published,
\* current_staff_count keeps its initial value 0 and, min_staff_count being
\* above 0, a staff alert of severity medium is appended on every tick from
\* the first one.
C37_StaffAlertOnEveryTickWithoutSnapshot ==
    /\ [](NoStaffSnapshot => kpis.staff_metrics.current_staff_count = 0)
    /\ []((agg_pc = "save_check" /\ NoStaffSnapshot)
            => LET alerts == kpis.operational_kpis.alerts
               IN /\ alerts # <<>>
                  /\ alerts[Len(alerts)].type = "staff_alert"
                  /\ alerts[Len(alerts)].timestamp = agg_time)
    /\ [][TickGoesOn /\ StaffAlertAppended]_vars

\* The second tick over a store in which nothing was ever published has just
\* appended its staff alert after the one of the first tick.
C37_Witness ==
    /\ agg_pc = "pk_alerts_trim"
    /\ \A r \in Roles : detection_data[r] = EmptyList
    /\ agg_ticks = 2
    /\ Len(kpis.operational_kpis.alerts) = 2
    /\ kpis.operational_kpis.alerts[1].type = "staff_alert"
    /\ kpis.operational_kpis.alerts[1].timestamp = 0
    /\ kpis.operational_kpis.alerts[2].type = "staff_alert"
    /\ kpis.operational_kpis.alerts[2].timestamp = 1

\* ------------------------------------------------- counts and detections
\* The aggregate count of a snapshot of role r.
CountOf(r, snapshot) ==
    CASE r = "parking" -> snapshot.vehicle_count
      [] r = "gate"    -> snapshot.person_count
      [] r = "queue"   -> snapshot.queue_length

\* C38: in every snapshot published for the vehicle, person and queue roles,
\* the aggregate count (vehicle_count, person_count, queue_length) equals the
\* number of entries of the detections sequence of the same snapshot.
C38_CountEqualsDetections ==
    \A r \in {"parking", "gate", "queue"} :
        detection_data[r] # EmptyList =>
            CountOf(r, detection_data[r]) = Len(detection_data[r].detections)

\* The gate worker has published a frame whose person is listed and counted,
\* and the parking worker a frame whose box was filtered out.
C38_Witness ==
    /\ detection_data["gate"] # EmptyList
    /\ detection_data["gate"].person_count = 1
    /\ Len(detection_data["gate"].detections) = 1
    /\ detection_data["parking"] # EmptyList
    /\ detection_data["parking"].vehicle_count = 0
    /\ detection_data["parking"].detections = <<>>

\* ------------------------------------------------ errors inside one update
\* The aggregator loop over a filled store, in which any update function and
\* the alert evaluation may raise inside its own try block.
NextIsolated ==
    \/ agg_ticks < MaxLifeTicks /\ AggWhile
    \/ AggProcessKpis
    \/ AggInnerRaises
    \/ AggAlertsRaise
    \/ AggSaveCheck({"ok"})
    \/ AggSleep

SpecIsolated == InitKpi /\ [][NextIsolated]_vars

\* The place of a position of process_kpis in the fixed order of its calls:
\* customer flow, vehicles, queue, staff, operational, alerts; 7 when
\* process_kpis has returned to the loop, 0 elsewhere.
FamilyAt(pc) ==
    CASE pc = "pk_gate" -> 1
      [] pc = "pk_parking" -> 2
      [] pc \in {"pk_queue", "pk_queue_history", "pk_queue_max", "pk_queue_average",
                 "pk_queue_lengths"} -> 3
      [] pc = "pk_staff" -> 4
      [] pc = "pk_operational" -> 5
      [] pc \in {"pk_alerts", "pk_alerts_trim"} -> 6
      [] pc = "save_check" -> 7
      [] OTHER -> 0

\* What the call at place f writes.
WrittenBy(f, k, h) ==
    CASE f = 1 -> <<k.customer_flow, h.entries_per_hour>>
      [] f = 2 -> <<k.vehicle_metrics, h.vehicle_counts>>
      [] f = 3 -> <<k.queue_analytics, h.queue_lengths>>
      [] f = 4 -> <<k.staff_metrics, h.staff_counts>>
      [] f = 5 -> <<k.operational_kpis.service_efficiency, k.operational_kpis.peak_hours>>
      [] f = 6 -> <<k.operational_kpis.alerts>>

\* Every step inside process_kpis, one that raises included, stays in its
\* call or goes on to the next call in order, never to the handler of the
\* loop, and writes nothing that another call owns.
StepsInOrder ==
    (FamilyAt(agg_pc) \in 1..6 /\ agg_pc' # agg_pc)
        => /\ FamilyAt(agg_pc') \in {FamilyAt(agg_pc), FamilyAt(agg_pc) + 1}
           /\ \A f \in (1..6) \ {FamilyAt(agg_pc)} :
                 WrittenBy(f, kpis', historical_data') = WrittenBy(f, kpis, historical_data)
           /\ UNCHANGED <<kp_running, agg_caught>>

\* C39: within one tick the updates are isolated: an error raised inside one
\* of update_customer_flow_kpis, update_vehicle_kpis, update_queue_kpis,
\* update_staff_kpis, update_operational_kpis or check_and_generate_alerts is
\* contained in that call, and the remaining calls of the same tick still run
\* in their fixed order.
C39_UpdatesIsolated ==
    /\ [](agg_pc # "except")
    /\ [][StepsInOrder]_vars

\* The first tick found a queue and a kitchen snapshot; update_queue_kpis
\* raised before its history append, and update_staff_kpis and the alert
\* evaluation of the same tick have run all the same.
C39_Witness ==
    /\ agg_pc = "pk_alerts_trim"
    /\ agg_ticks = 1
    /\ agg_detection_data["queue"] # EmptyList
    /\ agg_detection_data["kitchen"] # EmptyList
    /\ historical_data.queue_lengths = <<>>
    /\ Len(historical_data.staff_counts) = 1
    /\ kpis.operational_kpis.alerts # <<>>

\* -------------------------------------------------- the bounded histories
\* The aggregator loop, tick after tick, over a store in which every role has
\* been published.  The clock stops at MaxTime, and the loop goes on from
\* there until every ring holds samples of that time only.
InitHistories ==
    /\ ConfiguredWith(camera_config["queue_camera"].queue_zones)
    /\ SystemStarted(CameraNames)
    /\ detection_data \in {dd \in StoresAtStart(CameraNames) :
                              \A r \in Roles : dd[r] # EmptyList}
    /\ AggregatorAt("while", TRUE)

NextHistories ==
    \/ AggWhile
    \/ AggProcessKpis
    \/ AggSaveCheck({"ok"})
    \/ AggSleep

SpecHistories == InitHistories /\ [][NextHistories]_vars

\* The bounded histories of a KPI state with their capacities (100, 1440,
\* 1440, 1440 and 24 in the code).
Histories(k, h) ==
    << <<k.queue_analytics.queue_history, QueueHistoryMaxLen>>,
       <<h.queue_lengths, HistoricalMaxLen>>,
       <<h.staff_counts, HistoricalMaxLen>>,
       <<h.vehicle_counts, HistoricalMaxLen>>,
       <<h.entries_per_hour, EntriesPerHourMaxLen>> >>

\* A step leaves a history alone or adds one sample at its end, dropping the
\* oldest one when the history was full.
HistoryKeepsMostRecent ==
    \A i \in 1..5 :
        LET before == Histories(kpis, historical_data)[i][1]
            after == Histories(kpis', historical_data')[i][1]
            capacity == Histories(kpis, historical_data)[i][2]
        IN \/ after = before
           \/ /\ after # <<>>
              /\ after = LastN(Append(before, after[Len(after)]), capacity)

\* C40: after any sequence of ticks every bounded history stays within its
\* capacity (queue_history, queue_lengths, staff_counts, vehicle_counts,
\* entries_per_hour), each retaining the most recent samples in arrival order.
C40_HistoriesBounded ==
    /\ [](\A i \in 1..5 :
            Len(Histories(kpis, historical_data)[i][1])
                <= Histories(kpis, historical_data)[i][2])
    /\ [][HistoryKeepsMostRecent]_vars

\* Every history is full and has dropped the sample of the first tick.
C40_Witness ==
    /\ agg_pc = "save_check"
    /\ \A i \in 1..5 :
          LET history == Histories(kpis, historical_data)[i]
          IN /\ Len(history[1]) = history[2]
             /\ history[1][1].timestamp > 0

====
